---- MODULE Spec2Model ----
(***************************************************************************)
(* Session and catalog caching core of the astrum chat client:             *)
(*   - GranularBTreeMap, the dually indexed ordered cache                  *)
(*     (crates/granular_btreemap/src/lib.rs);                              *)
(*   - Chat / ChatsManager, the in-memory projection of the chats and      *)
(*     messages tables (src/managers/chats_manager);                       *)
(*   - the streaming generation started by send_message                    *)
(*     (src/views/chat/blocks/chat_area/mod.rs);                           *)
(*   - the model catalog cache and its fetch gate                          *)
(*     (src/blocks/models_menu.rs).                                        *)
(* Strings are sequences of one-character strings.                         *)
(***************************************************************************)
EXTENDS Integers, Sequences, FiniteSets, TLC

\* ------------------------------------------------------------------ bounds

\* Number of identity keys the ordered cache is exercised with.
NumKeys == 3

\* Chats the session creates.
MaxChats == 2

\* Longest message content, in characters.
MaxContentLen == 3

\* Longest content a response stream builds, in characters.
MaxStreamLen == 2

\* Last instant of the wall clock.
MaxClock == 1

\* ------------------------------------------------------------- vocabulary

None == <<"None">>

Some(x) == <<"Some", x>>

Ok(x) == <<"Ok", x>>

Err(x) == <<"Err", x>>

Unit == "()"

\* The outcome of a call whose unwrap() failed: the thread panics.
Panic == <<"panic">>

\* HashMap / BTreeMap insert: the entry for k is replaced or created.
MapInsert(f, k, v) == [x \in (DOMAIN f) \cup {k} |-> IF x = k THEN v ELSE f[x]]

\* HashMap / BTreeMap remove: a no-op when k is absent.
MapRemove(f, k) == [x \in (DOMAIN f) \ {k} |-> f[x]]

EmptyMap == [x \in {} |-> None]

\* ------------------------------------------------------- GranularBTreeMap

\* Identity keys of the cache under test.
Keys == 1..NumKeys

\* Timestamps used as order keys; ChatsMap wraps them in cmp::Reverse.
Timestamps == {3, 5, 10}

\* cmp::Reverse(t)
Reverse(t) == [rev |-> t]

OrderKeys == {Reverse(t) : t \in Timestamps}

\* Ord of cmp::Reverse<T>: Reverse(a) < Reverse(b) iff b < a.
OrdLess(a, b) == b.rev < a.rev

\* The payload stored for a key names its key, as the Entity<Chat> stored
\* under a chat id is the chat of that id.
ValuesFor(key) == {[of |-> key, version |-> n] : n \in {1, 2}}

\* GranularBTreeMap::new
NewMap == [lookup_map |-> EmptyMap, order_map |-> EmptyMap]

\* Mutant: a miss takes the entry at the new order key out of order_map.
UpdateOrderForKey_ClearsOnMiss(m, key, new_order_key) ==
    IF key \notin DOMAIN m.lookup_map
    THEN [map |-> [m EXCEPT !.order_map = MapRemove(@, new_order_key)],
          ret |-> Err(1)]
    ELSE [map |-> m, ret |-> Ok(Unit)]

\* GranularBTreeMap::insert
Insert(m, key, value, order_key) ==
    LET om1 == IF key \in DOMAIN m.lookup_map
               THEN MapRemove(m.order_map, m.lookup_map[key].order_key)
               ELSE m.order_map
    IN  [lookup_map |-> MapInsert(m.lookup_map, key,
                                  [order_key |-> order_key, value |-> value]),
         order_map  |-> MapInsert(om1, order_key, value)]

\* GranularBTreeMap::update_order_for_key; the result and the map it leaves.
\* The lookup entry is taken out (remove_entry) before the order entry is
\* looked for, so Err(2) leaves the key without its lookup entry.
UpdateOrderForKey(m, key, new_order_key) ==
    IF key \notin DOMAIN m.lookup_map
    THEN [map |-> m, ret |-> Err(1)]
    ELSE LET e   == m.lookup_map[key]
             lm1 == MapRemove(m.lookup_map, key)
         IN  IF e.order_key \notin DOMAIN m.order_map
             THEN [map |-> [lookup_map |-> lm1, order_map |-> m.order_map],
                   ret |-> Err(2)]
             ELSE [map |-> [lookup_map |->
                               MapInsert(lm1, key, [order_key |-> new_order_key,
                                                    value |-> e.value]),
                            order_map |->
                               MapInsert(MapRemove(m.order_map, e.order_key),
                                         new_order_key, e.value)],
                   ret |-> Ok(Unit)]

\* GranularBTreeMap::get
Get(m, key) ==
    IF key \in DOMAIN m.lookup_map THEN Some(m.lookup_map[key].value) ELSE None

\* GranularBTreeMap::remove; Rc::try_unwrap succeeds when no other index
\* still holds the value.
Remove(m, key) ==
    IF key \notin DOMAIN m.lookup_map
    THEN [map |-> m, ret |-> None]
    ELSE LET e   == m.lookup_map[key]
             om1 == MapRemove(m.order_map, e.order_key)
         IN  [map |-> [lookup_map |-> MapRemove(m.lookup_map, key),
                       order_map  |-> om1],
              ret |-> IF \E o \in DOMAIN om1 : om1[o] = e.value
                      THEN None ELSE Some(e.value)]

\* The keys of a BTreeMap in iteration order (ascending in Ord).
RECURSIVE SortedKeys(_)
SortedKeys(S) ==
    IF S = {} THEN <<>>
    ELSE LET least == CHOOSE x \in S : \A y \in S : y = x \/ OrdLess(x, y)
         IN  <<least>> \o SortedKeys(S \ {least})

\* GranularBTreeMap::values
Values(m) ==
    LET ks == SortedKeys(DOMAIN m.order_map)
    IN  [i \in 1..Len(ks) |-> m.order_map[ks[i]]]

\* ------------------------------------------------------------ ChatSession

\* UniqueId::new() never repeats: ids are handed out in order.
ChatIds == 1..MaxChats

\* What send_message pushes: the user's prompt, then the assistant's
\* placeholder "".
PushInputs == {[content |-> <<"u">>, role |-> "user"],
               [content |-> <<>>, role |-> "assistant"]}

\* Content deltas appended by this session and by another writer.
SessionDeltas == {<<"a">>}

ExternalDeltas == {<<"x">>}

\* Position of message_id in an IndexMap kept as its sequence of entries;
\* 0 when absent.
IndexOf(messages, message_id) ==
    IF \E i \in 1..Len(messages) : messages[i].message_id = message_id
    THEN CHOOSE i \in 1..Len(messages) : messages[i].message_id = message_id
    ELSE 0

\* IndexMap::get(message_id).map(|m| &m.message.content)
CachedContent(messages, message_id) ==
    IF IndexOf(messages, message_id) = 0 THEN None
    ELSE Some(messages[IndexOf(messages, message_id)].content)

\* messages.update: message.message.content += &content, when present.
AppendCached(messages, message_id, content) ==
    IF IndexOf(messages, message_id) = 0 THEN messages
    ELSE [messages EXCEPT ![IndexOf(messages, message_id)].content = @ \o content]

\* Mutant: the statement sets the content to the delta instead of appending.
SqlAppend_Overwrite(row, content, edited_at) ==
    [row EXCEPT !.content = content]

\* UPDATE messages SET content = content || ?2, edited_at = ?3 WHERE id = ?1
SqlAppend(row, content, edited_at) ==
    [row EXCEPT !.content = @ \o content, !.edited_at = edited_at]

\* Mutant: the store's response is not compared with the cached content.
ResolveDesync_Skip(messages, message_id, new_content, new_cached_content) ==
    messages

\* Mutant: the resolution starts the cached content over once the store
\* holds more than one character.
ResolveDesync_Truncates(messages, message_id, new_content, new_cached_content) ==
    IF IndexOf(messages, message_id) = 0 \/ Len(new_content) <= 1 THEN messages
    ELSE [messages EXCEPT ![IndexOf(messages, message_id)].content = <<>>]

\* The desync resolution: the store's content replaces the cached one when
\* the two differ.
ResolveDesync(messages, message_id, new_content, new_cached_content) ==
    IF Some(new_content) # new_cached_content
       /\ IndexOf(messages, message_id) # 0
    THEN [messages EXCEPT ![IndexOf(messages, message_id)].content = new_content]
    ELSE messages

\* ------------------------------------------------------------------ state

VARIABLES
    cache,        \* a GranularBTreeMap driven directly through its methods
    clock,        \* Utc::now()
    db_chats,     \* the chats table: id -> row
    db_messages,  \* the messages table: id -> row
    chats,        \* ChatsManager.chats, the ChatsMap (value: the chat's entity)
    chat_mem,     \* the Chat entities: chat id -> edited_at and cached messages
    panicked,     \* an unwrap() failed: the process is gone
    commits,      \* history: message id -> initial content and the deltas the
                  \* store applied, in commit order
    selected,        \* a current provider and a current model are selected
    current_chat_id, \* ChatsManager.current_chat_id
    is_streaming,    \* ChatsManager.is_streaming, the global streaming flag
    abort_handle,    \* ChatsManager.abort_handle: None or Some(generation)
    gens,            \* the streaming tasks send_message spawned, by generation
    title_selected,  \* a chat-titles provider and model are selected
    title_tasks,     \* the title tasks send_message spawned, by chat
    fetch_in_progress,     \* the static FETCH_IN_PROGRESS
    sweeps,                \* the tasks of the bulk sweeps, by task slot
    fetches,               \* the tasks spawn_fetch_models spawned, by task slot
    per_provider,          \* ModelsCache.per_provider
    all_models,            \* ModelsCache.all_models, as the bag of its entries
    refreshes,             \* history: provider id -> its latest refresh call
    db_providers,          \* the providers table: id -> row
    issued_ids,            \* history: the provider ids UniqueId::new has given
    provider_config_cache, \* ModelsCache.provider_config_cache
    provider_url,          \* each provider's url
    provider_api_key,      \* each provider's API key in the secret store
    instant,               \* Instant::now(), in seconds
    last_call     \* the latest call: its name, arguments and return value

cacheVars == <<cache>>

chatVars == <<clock, db_chats, db_messages, chats, chat_mem, panicked, commits>>

streamVars == <<selected, current_chat_id, is_streaming, abort_handle, gens,
                title_selected, title_tasks>>

catalogVars == <<all_models, refreshes>>

registryVars == <<db_providers, issued_ids>>

fetchVars == <<fetch_in_progress, sweeps, fetches, per_provider, all_models,
               refreshes, db_providers, issued_ids,
               provider_config_cache, provider_url, provider_api_key, instant>>

vars == <<cache, clock, db_chats, db_messages, chats, chat_mem, panicked,
          commits, selected, current_chat_id, is_streaming, abort_handle, gens,
          title_selected, title_tasks,
          fetch_in_progress, sweeps, fetches, per_provider, all_models,
          refreshes, db_providers, issued_ids,
          provider_config_cache, provider_url, provider_api_key, instant,
          last_call>>

\* The configured providers, in the iteration order of the providers map.
ProvidersInfo == <<1, 2>>

Providers == {ProvidersInfo[i] : i \in DOMAIN ProvidersInfo}

\* Task slots of the executor for sweeps and for single-provider fetches; a
\* slot is free again when its task has ended.
SweepIds == {1, 2}

FetchIds == {1, 2}

IdleSweep == [pc |-> "idle", kind |-> "none", todo |-> <<>>]

IdleFetch == [pc |-> "idle", provider_id |-> 0]

Urls == {"u1", "u2"}

\* ProviderKind::default_name of the kind the providers are created with.
DefaultName == "Ollama"

\* A row of the providers table: the columns of the INSERT of new_provider
\* that the operations here write (kind, icon and the timestamps left out).
ProviderRow(name, url) == [name |-> name, url |-> url]

\* Mutant: the row of a new provider carries its API key.
NewProviderRow_WithKey(name, url, api_key) ==
    [name |-> name, url |-> url,
     api_key |-> IF api_key = <<"None">> THEN "" ELSE api_key[2]]

\* The values new_provider binds to its INSERT.
NewProviderRow(name, url, api_key) ==
    ProviderRow(name, url)

\* The generations a run of the streaming specification starts.
GenIds == {1, 2, 3}

\* A generation send_message has not started yet.
NoGen == [pc |-> "unused", chat_id |-> 0, msg_id |-> 0, aborted |-> FALSE]

\* The state after Managers::new and Managers::init on a fresh database.
Init ==
    /\ cache = NewMap
    /\ clock = 0
    /\ db_chats = EmptyMap
    /\ db_messages = EmptyMap
    /\ chats = NewMap
    /\ chat_mem = EmptyMap
    /\ panicked = FALSE
    /\ commits = EmptyMap
    /\ selected = FALSE
    /\ current_chat_id = None
    /\ is_streaming = FALSE
    /\ abort_handle = None
    /\ gens = [g \in GenIds |-> NoGen]
    /\ title_selected = FALSE
    /\ title_tasks = EmptyMap
    /\ fetch_in_progress = FALSE
    /\ sweeps = [t \in SweepIds |-> IdleSweep]
    /\ fetches = [t \in FetchIds |-> IdleFetch]
    /\ per_provider = EmptyMap
    /\ all_models = EmptyMap
    /\ refreshes = EmptyMap
    /\ db_providers = [p \in Providers |-> ProviderRow(DefaultName, "u1")]
    /\ issued_ids = Providers
    /\ provider_config_cache = EmptyMap
    /\ provider_url = [p \in Providers |-> "u1"]
    /\ provider_api_key = [p \in Providers |-> None]
    /\ instant = 0
    /\ last_call = [op |-> "new"]

\* ------------------------------------------- ordered cache, called directly

CacheInsert(key, value, order_key) ==
    /\ UNCHANGED <<chatVars, streamVars, fetchVars>>
    /\ cache' = Insert(cache, key, value, order_key)
    /\ last_call' = [op |-> "insert", key |-> key, value |-> value,
                     order_key |-> order_key, ret |-> Unit]

CacheUpdateOrderForKey(key, order_key) ==
    LET r == UpdateOrderForKey(cache, key, order_key)
    IN  /\ UNCHANGED <<chatVars, streamVars, fetchVars>>
        /\ cache' = r.map
        /\ last_call' = [op |-> "update_order_for_key", key |-> key,
                         order_key |-> order_key, ret |-> r.ret]

CacheRemove(key) ==
    LET r == Remove(cache, key)
    IN  /\ UNCHANGED <<chatVars, streamVars, fetchVars>>
        /\ cache' = r.map
        /\ last_call' = [op |-> "remove", key |-> key, ret |-> r.ret]

NextCache ==
    \/ \E key \in Keys, order_key \in OrderKeys :
          \E value \in ValuesFor(key) : CacheInsert(key, value, order_key)
    \/ \E key \in Keys, order_key \in OrderKeys :
          CacheUpdateOrderForKey(key, order_key)
    \/ \E key \in Keys : CacheRemove(key)

SpecCache == Init /\ [][NextCache]_vars

\* ------------------------------------------------- chat session operations

\* The store and its in-memory projection, as one value the operations map.
Session ==
    [db_chats |-> db_chats, db_messages |-> db_messages, chats |-> chats,
     chat_mem |-> chat_mem, panicked |-> panicked, commits |-> commits]

SetSession(s) ==
    /\ db_chats' = s.db_chats
    /\ db_messages' = s.db_messages
    /\ chats' = s.chats
    /\ chat_mem' = s.chat_mem
    /\ panicked' = s.panicked
    /\ commits' = s.commits

NextChatId(s) == Cardinality(DOMAIN s.db_chats) + 1

NextMessageId(s) == Cardinality(DOMAIN s.db_messages) + 1

\* Concatenation of a sequence of strings.
RECURSIVE Concat(_)
Concat(ss) == IF ss = <<>> THEN <<>> ELSE Head(ss) \o Concat(Tail(ss))

\* The title Chat::new gives a chat.
UntitledChat == <<"Untitled Chat">>

\* ChatsManager::create_chat with Chat::new: the chats row is inserted, the
\* entity is built from it and put in the ordered cache under the same
\* timestamp. ok: the INSERT succeeds.
CreateChat(s, now, ok) ==
    IF ok
    THEN LET chat_id == NextChatId(s)
             created_at == now
         IN  [s |-> [s EXCEPT
                       !.db_chats = MapInsert(@, chat_id,
                                       [edited_at |-> created_at,
                                        title |-> UntitledChat]),
                       !.chat_mem = MapInsert(@, chat_id,
                                       [edited_at |-> created_at,
                                        title |-> UntitledChat,
                                        messages |-> <<>>]),
                       !.chats = Insert(@, chat_id, chat_id, Reverse(created_at))],
              ret |-> Ok(chat_id)]
    ELSE [s |-> s, ret |-> Err("SqliteError")]

\* Chat::push_message on the chat's own id (send_message, its one caller,
\* passes current_chat.chat_id). ok: the INSERT succeeds. A failed unwrap()
\* of update_order_for_key panics.
PushMessage(s, chat_id, content, role, now, ok) ==
    IF ok
    THEN LET message_id == NextMessageId(s)
             created_at == now
             r == UpdateOrderForKey(s.chats, chat_id, Reverse(created_at))
         IN  [s |-> [s EXCEPT
                       !.db_messages = MapInsert(@, message_id,
                           [chat_id |-> chat_id, role |-> role,
                            content |-> content, created_at |-> created_at,
                            edited_at |-> created_at]),
                       !.chat_mem[chat_id].messages =
                           Append(@, [message_id |-> message_id,
                                      content |-> content, role |-> role]),
                       !.chats = r.map,
                       !.panicked = (r.ret # Ok(Unit)),
                       !.commits = MapInsert(@, message_id,
                                       [initial |-> content, deltas |-> <<>>])],
              ret |-> IF r.ret = Ok(Unit) THEN Ok(message_id) ELSE Panic]
    ELSE [s |-> s, ret |-> Err("SqliteError")]

\* Chat::push_message_content. ok: the UPDATE statement succeeds; it finds no
\* row when the message id is not in the table. The cached content is
\* appended to before the statement runs and is not restored when it fails.
PushMessageContent(s, chat_id, message_id, content, now, ok) ==
    LET edited_at == now
        messages1 == AppendCached(s.chat_mem[chat_id].messages, message_id, content)
        new_cached_content == CachedContent(messages1, message_id)
    IN  IF ok /\ message_id \in DOMAIN s.db_messages
        THEN LET row == SqlAppend(s.db_messages[message_id], content, edited_at)
                 new_content == row.content
                 messages2 == ResolveDesync(messages1, message_id, new_content,
                                            new_cached_content)
                 r == UpdateOrderForKey(s.chats, chat_id, Reverse(edited_at))
             IN  [s |-> [s EXCEPT
                           !.db_messages[message_id] = row,
                           !.chat_mem[chat_id].messages = messages2,
                           !.chats = r.map,
                           !.panicked = (r.ret # Ok(Unit)),
                           !.commits[message_id].deltas = Append(@, content)],
                  cached |-> new_cached_content,
                  returned |-> Some(new_content),
                  ret |-> IF r.ret = Ok(Unit) THEN Ok(Unit) ELSE Panic]
        ELSE [s |-> [s EXCEPT !.chat_mem[chat_id].messages = messages1],
              cached |-> new_cached_content,
              returned |-> None,
              ret |-> IF ok THEN Err("QueryReturnedNoRows")
                      ELSE Err("SqliteError")]

\* ------------------------------------- the session API, called directly

CallCreateChat(ok) ==
    LET r == CreateChat(Session, clock, ok)
    IN  /\ ~panicked
        /\ SetSession(r.s)
        /\ UNCHANGED <<cache, clock, streamVars, fetchVars>>
        /\ last_call' = [op |-> "create_chat", ret |-> r.ret]

CallPushMessage(chat_id, content, role, ok) ==
    LET r == PushMessage(Session, chat_id, content, role, clock, ok)
    IN  /\ ~panicked
        /\ chat_id \in DOMAIN chat_mem
        /\ SetSession(r.s)
        /\ UNCHANGED <<cache, clock, streamVars, fetchVars>>
        /\ last_call' = [op |-> "push_message", chat_id |-> chat_id,
                         ret |-> r.ret]

CallPushMessageContent(chat_id, message_id, content, ok) ==
    LET r == PushMessageContent(Session, chat_id, message_id, content, clock, ok)
    IN  /\ ~panicked
        /\ chat_id \in DOMAIN chat_mem
        /\ SetSession(r.s)
        /\ UNCHANGED <<cache, clock, streamVars, fetchVars>>
        /\ last_call' = [op |-> "push_message_content", chat_id |-> chat_id,
                         message_id |-> message_id, content |-> content,
                         cached |-> r.cached, returned |-> r.returned,
                         ret |-> r.ret]

\* Another writer on the same database file (a resumed background write)
\* runs the same UPDATE on a message row.
ExternalAppend(message_id, content) ==
    /\ ~panicked
    /\ message_id \in DOMAIN db_messages
    /\ UNCHANGED <<cache, clock, db_chats, chats, chat_mem, panicked,
                   streamVars, fetchVars>>
    /\ db_messages' = [db_messages EXCEPT
                          ![message_id] = SqlAppend(@, content, clock)]
    /\ commits' = [commits EXCEPT ![message_id].deltas = Append(@, content)]
    /\ last_call' = [op |-> "external_append", message_id |-> message_id,
                     content |-> content]

\* Time passes.
Tick ==
    /\ ~panicked
    /\ clock < MaxClock
    /\ clock' = clock + 1
    /\ UNCHANGED <<cache, db_chats, db_messages, chats, chat_mem, panicked,
                   commits, streamVars, fetchVars>>
    /\ last_call' = [op |-> "tick"]

\* Contents stay within MaxContentLen, in the store and in memory.
FitsContent(message_id, content) ==
    /\ message_id \in DOMAIN db_messages =>
          Len(db_messages[message_id].content) + Len(content) <= MaxContentLen
    /\ \A c \in DOMAIN chat_mem :
          LET cached == CachedContent(chat_mem[c].messages, message_id)
          IN  cached # None => Len(cached[2]) + Len(content) <= MaxContentLen

\* The message ids UniqueId::new() hands out in the chat specification.
MessageIds == {1}

NextChat ==
    \/ \E ok \in BOOLEAN :
          NextChatId(Session) <= MaxChats /\ CallCreateChat(ok)
    \/ \E chat_id \in ChatIds, in \in PushInputs, ok \in BOOLEAN :
          NextMessageId(Session) \in MessageIds
             /\ CallPushMessage(chat_id, in.content, in.role, ok)
    \/ \E chat_id \in ChatIds, message_id \in MessageIds,
          content \in SessionDeltas, ok \in BOOLEAN :
          FitsContent(message_id, content)
             /\ CallPushMessageContent(chat_id, message_id, content, ok)
    \/ \E message_id \in MessageIds, content \in ExternalDeltas :
          FitsContent(message_id, content) /\ ExternalAppend(message_id, content)
    \/ Tick

SpecChat == Init /\ [][NextChat]_vars

\* The message ids handed out when each chat is pushed one message.
PushIds == 1..MaxChats

\* Chats are created and messages pushed, at any reading of the clock.
NextPush ==
    \/ \E ok \in BOOLEAN :
          NextChatId(Session) <= MaxChats /\ CallCreateChat(ok)
    \/ \E chat_id \in ChatIds, in \in PushInputs, ok \in BOOLEAN :
          NextMessageId(Session) \in PushIds
             /\ CallPushMessage(chat_id, in.content, in.role, ok)
    \/ Tick

SpecPush == Init /\ [][NextPush]_vars

\* ---------------------------------------------------- streaming generation

IsOk(r) == r[1] = "Ok"

\* Content deltas of the provider's response stream.
Chunks == {<<"a">>}

\* err.to_string() of a failed provider chat call.
ErrorText == <<"e">>

\* The prompt the user sends.
Prompt == <<"u">>

\* The session together with the streaming state of ChatsManager.
App ==
    [s |-> Session, current_chat_id |-> current_chat_id,
     is_streaming |-> is_streaming, abort_handle |-> abort_handle,
     gens |-> gens, title_selected |-> title_selected,
     title_tasks |-> title_tasks]

SetApp(a) ==
    /\ SetSession(a.s)
    /\ current_chat_id' = a.current_chat_id
    /\ is_streaming' = a.is_streaming
    /\ abort_handle' = a.abort_handle
    /\ gens' = a.gens
    /\ title_selected' = a.title_selected
    /\ title_tasks' = a.title_tasks

\* ORDER BY edited_at ASC over the rows ids; rows of equal edited_at come in
\* the order they were inserted.
RECURSIVE OrderByEditedAt(_, _)
OrderByEditedAt(rows, ids) ==
    IF ids = {} THEN <<>>
    ELSE LET first == CHOOSE m \in ids : \A n \in ids :
                         \/ rows[m].edited_at < rows[n].edited_at
                         \/ rows[m].edited_at = rows[n].edited_at /\ m <= n
         IN  <<first>> \o OrderByEditedAt(rows, ids \ {first})

\* Chat::load_messages_from_db: the rows of the chat, by edited_at.
LoadMessagesFromDb(s, chat_id) ==
    LET ids == OrderByEditedAt(s.db_messages,
                  {m \in DOMAIN s.db_messages : s.db_messages[m].chat_id = chat_id})
    IN  [i \in 1..Len(ids) |->
           [message_id |-> ids[i], content |-> s.db_messages[ids[i]].content,
            role |-> s.db_messages[ids[i]].role]]

\* ChatsManager::get_current_chat: the cached entity, or the chat loaded from
\* the store and inserted under its stored edited_at.
GetCurrentChat(s, cur) ==
    IF cur = None THEN [s |-> s, ret |-> Ok(None)]
    ELSE IF Get(s.chats, cur[2]) # None THEN [s |-> s, ret |-> Ok(cur)]
    ELSE IF cur[2] \notin DOMAIN s.db_chats
    THEN [s |-> s, ret |-> Err("SqliteError")]
    ELSE LET edited_at == s.db_chats[cur[2]].edited_at
         IN  [s |-> [s EXCEPT
                       !.chat_mem = MapInsert(@, cur[2],
                           [edited_at |-> edited_at,
                            title |-> s.db_chats[cur[2]].title,
                            messages |-> LoadMessagesFromDb(s, cur[2])]),
                       !.chats = Insert(@, cur[2], cur[2], Reverse(edited_at))],
              ret |-> Ok(cur)]

\* AbortHandle::abort on the handle stored in ChatsManager, when there is one.
CancelStreaming(a) ==
    IF a.abort_handle = None THEN a
    ELSE [a EXCEPT !.gens[a.abort_handle[2]].aborted = TRUE]

\* Mutant: the streaming future runs without the Abortable wrapper.
IsAborted_Never(gs, g) == FALSE

\* Abortable::poll looks at the abort flag before it polls the future.
IsAborted(gs, g) == gs[g].aborted

\* The end of the streaming task: set_streaming(false), set_abort_handle(None).
Cleanup(a) == [a EXCEPT !.is_streaming = FALSE, !.abort_handle = None]

\* The streaming task of generation g ends: the cleanup runs in the same poll.
Finish(a, g) == [Cleanup(a) EXCEPT !.gens[g].pc = "done"]

\* An unwrap() of an Err: the thread panics.
Panicked(a) == [a EXCEPT !.s.panicked = TRUE]

\* The generation send_message starts next.
NextGen(a) ==
    IF \E g \in GenIds : a.gens[g].pc = "unused"
    THEN CHOOSE g \in GenIds :
            a.gens[g].pc = "unused" /\ \A h \in GenIds : h < g => a.gens[h].pc # "unused"
    ELSE 0

\* send_message, from the push of the user's message on: the chat is
\* chat_id. user_ok, asst_ok: the INSERT of each message succeeds.
StartGeneration(a, chat_id, contents, now, user_ok, asst_ok) ==
    LET u  == PushMessage(a.s, chat_id, contents, "user", now, user_ok)
        as == PushMessage(u.s, chat_id, <<>>, "assistant", now, asst_ok)
        g  == NextGen(a)
    IN  IF ~IsOk(u.ret) THEN Panicked([a EXCEPT !.s = u.s])
        ELSE IF as.ret = Panic THEN [a EXCEPT !.s = as.s]
        ELSE IF ~IsOk(as.ret) THEN [a EXCEPT !.s = as.s]
        ELSE [a EXCEPT !.s = as.s,
                       !.is_streaming = TRUE,
                       !.abort_handle = Some(g),
                       !.gens[g] = [pc |-> "spawned", chat_id |-> chat_id,
                                    msg_id |-> as.ret[2], aborted |-> FALSE]]

\* A title task that has just been spawned.
NewTitleTask == [pc |-> "spawned", title |-> <<>>]

\* send_message on a new chat: when a chat-titles provider and model are
\* selected, the task that names the chat is spawned and detached.
SpawnTitleTask(a, chat_id) ==
    IF a.title_selected
    THEN [a EXCEPT !.title_tasks = MapInsert(@, chat_id, NewTitleTask)]
    ELSE a

\* Mutant: send_message goes on without a current provider and model.
SendMessage_Unchecked(a, has_selection, contents, now, create_ok, user_ok, asst_ok) ==
    LET cur == GetCurrentChat(a.s, a.current_chat_id)
        new == CreateChat(cur.s, now, create_ok)
    IN  IF ~IsOk(cur.ret) THEN [a EXCEPT !.s = cur.s]
        ELSE IF cur.ret = Ok(None)
        THEN IF ~IsOk(new.ret) THEN [a EXCEPT !.s = new.s]
             ELSE StartGeneration(
                     SpawnTitleTask(
                        [a EXCEPT !.s = new.s,
                                  !.current_chat_id = Some(new.ret[2])],
                        new.ret[2]),
                     new.ret[2], contents, now, user_ok, asst_ok)
        ELSE StartGeneration(
                [a EXCEPT !.s = cur.s, !.current_chat_id = cur.ret[2]],
                cur.ret[2][2], contents, now, user_ok, asst_ok)

\* send_message. create_ok: the INSERT of a new chat succeeds.
SendMessage(a, has_selection, contents, now, create_ok, user_ok, asst_ok) ==
    IF ~has_selection THEN a
    ELSE LET cur == GetCurrentChat(a.s, a.current_chat_id)
             new == CreateChat(cur.s, now, create_ok)
         IN  IF ~IsOk(cur.ret) THEN [a EXCEPT !.s = cur.s]
             ELSE IF cur.ret = Ok(None)
             THEN IF ~IsOk(new.ret) THEN [a EXCEPT !.s = new.s]
                  ELSE StartGeneration(
                          SpawnTitleTask(
                             [a EXCEPT !.s = new.s,
                                       !.current_chat_id = Some(new.ret[2])],
                             new.ret[2]),
                          new.ret[2], contents, now, user_ok, asst_ok)
             ELSE StartGeneration(
                     [a EXCEPT !.s = cur.s, !.current_chat_id = cur.ret[2]],
                     cur.ret[2][2], contents, now, user_ok, asst_ok)

\* The chat box's on_enter handler. has_text: the input is not empty.
OnEnterHandler(a, has_selection, has_text, now, create_ok, user_ok, asst_ok) ==
    LET a1 == IF a.is_streaming THEN CancelStreaming(a) ELSE a
    IN  IF ~has_selection THEN a1
        ELSE IF ~has_text THEN a1
        ELSE SendMessage(a1, has_selection, Prompt, now, create_ok, user_ok, asst_ok)

\* The send button's on_click handler.
OnClickHandler(a, has_selection, has_text, now, create_ok, user_ok, asst_ok) ==
    IF a.is_streaming THEN CancelStreaming(a)
    ELSE IF ~has_text THEN a
    ELSE SendMessage(a, has_selection, Prompt, now, create_ok, user_ok, asst_ok)

\* A run starts at most the generations of GenIds, with two messages each.
CanSend ==
    /\ NextGen(App) # 0
    /\ NextMessageId(Session) + 1 <= 2 * Cardinality(GenIds)

OnEnter(has_text, create_ok, user_ok, asst_ok) ==
    LET a2 == OnEnterHandler(App, selected, has_text, clock, create_ok,
                             user_ok, asst_ok)
    IN  /\ ~panicked
        /\ CanSend \/ ~selected \/ ~has_text
        /\ SetApp(a2)
        /\ UNCHANGED <<cache, clock, selected, fetchVars>>
        /\ last_call' = [op |-> "on_enter", has_text |-> has_text]

\* The button is disabled without a selection and, when idle, without text.
OnClick(has_text, create_ok, user_ok, asst_ok) ==
    LET a2 == OnClickHandler(App, selected, has_text, clock, create_ok,
                             user_ok, asst_ok)
    IN  /\ ~panicked
        /\ selected /\ (is_streaming \/ has_text)
        /\ CanSend \/ is_streaming
        /\ SetApp(a2)
        /\ UNCHANGED <<cache, clock, selected, fetchVars>>
        /\ last_call' = [op |-> "on_click", has_text |-> has_text]

\* send_message called while get_current_provider or get_current_model gives
\* None: has_provider, has_model say which of the two is there.
SendUnselected(has_provider, has_model, create_ok, user_ok, asst_ok) ==
    LET a2 == SendMessage(App, has_provider /\ has_model, Prompt, clock,
                          create_ok, user_ok, asst_ok)
    IN  /\ ~panicked
        /\ ~selected
        /\ ~(has_provider /\ has_model)
        /\ CanSend
        /\ SetApp(a2)
        /\ UNCHANGED <<cache, clock, selected, fetchVars>>
        /\ last_call' = [op |-> "send_message", has_text |-> TRUE]

\* push_message_content(..).unwrap() inside the streaming task.
PushUnwrap(a, g, content, now, ok) ==
    LET r == PushMessageContent(a.s, a.gens[g].chat_id, a.gens[g].msg_id,
                                content, now, ok)
    IN  IF IsOk(r.ret) THEN [a EXCEPT !.s = r.s]
        ELSE Panicked([a EXCEPT !.s = r.s])

\* Mutant: a history that cannot be read ends the task, cleanup included.
PollStart_ReturnsTask(a, g, read_ok) ==
    IF a.gens[g].aborted THEN [Cleanup(a) EXCEPT !.gens[g].pc = "done"]
    ELSE IF ~read_ok THEN [a EXCEPT !.gens[g].pc = "done"]
    ELSE [a EXCEPT !.gens[g].pc = "chat_call"]

\* First poll of the task: the message history is read and the provider's
\* chat call is issued. read_ok: cx.read_entity succeeds.
PollStart(a, g, read_ok) ==
    IF IsAborted(a.gens, g) THEN Finish(a, g)
    ELSE IF ~read_ok THEN Finish(a, g)
    ELSE [a EXCEPT !.gens[g].pc = "chat_call"]

\* The poll in which the provider's chat call has resolved.
PollChatResponse(a, g, chat_ok, now, ok) ==
    IF IsAborted(a.gens, g) THEN Finish(a, g)
    ELSE IF chat_ok THEN [a EXCEPT !.gens[g].pc = "streaming"]
    ELSE LET a1 == PushUnwrap(a, g, ErrorText, now, ok)
         IN  IF a1.s.panicked THEN a1 ELSE Finish(a1, g)

\* What response.next() resolves to.
StreamItems ==
    {Some(Ok(chunk)) : chunk \in Chunks} \cup {Some(Err("stream")), None}

IsChunk(item) == item[1] = "Some" /\ IsOk(item[2])

\* The poll in which response.next() has resolved: while let Some(Ok(chunk))
\* pushes the chunk and goes on; anything else ends the loop.
PollNext(a, g, item, now, ok) ==
    IF IsAborted(a.gens, g) THEN Finish(a, g)
    ELSE IF IsChunk(item) THEN PushUnwrap(a, g, item[2][2], now, ok)
    ELSE Finish(a, g)

TaskStart(g, read_ok) ==
    LET a2 == PollStart(App, g, read_ok)
    IN  /\ ~panicked
        /\ gens[g].pc = "spawned"
        /\ last_call' = [op |-> "poll", gen |-> g,
                         event |-> IF IsAborted(gens, g) THEN "aborted"
                                   ELSE "start"]
        /\ UNCHANGED <<cache, clock, selected, fetchVars>>
        /\ SetApp(a2)

TaskChatResponse(g, chat_ok, ok) ==
    LET a2 == PollChatResponse(App, g, chat_ok, clock, ok)
    IN  /\ ~panicked
        /\ gens[g].pc = "chat_call"
        /\ last_call' = [op |-> "poll", gen |-> g,
                         event |-> IF IsAborted(gens, g) THEN "aborted"
                                   ELSE IF chat_ok THEN "chat_ok"
                                   ELSE "chat_err"]
        /\ UNCHANGED <<cache, clock, selected, fetchVars>>
        /\ SetApp(a2)

TaskNext(g, item, ok) ==
    LET a2 == PollNext(App, g, item, clock, ok)
    IN  /\ ~panicked
        /\ gens[g].pc = "streaming"
        /\ IsChunk(item) =>
              Len(db_messages[gens[g].msg_id].content) + Len(item[2][2])
                 <= MaxStreamLen
        /\ last_call' = [op |-> "poll", gen |-> g,
                         event |-> IF IsAborted(gens, g) THEN "aborted"
                                   ELSE IF IsChunk(item) THEN "chunk"
                                   ELSE IF item = None THEN "stream_end"
                                   ELSE "stream_err"]
        /\ UNCHANGED <<cache, clock, selected, fetchVars>>
        /\ SetApp(a2)

\* The picker's item click: set_current_provider and set_current_model.
SelectModel ==
    /\ ~panicked
    /\ selected' = TRUE
    /\ last_call' = [op |-> "select_model"]
    /\ UNCHANGED <<cacheVars, chatVars, current_chat_id, is_streaming,
                   abort_handle, gens, title_selected, title_tasks, fetchVars>>

\* ModelsManager::clear_current_selection
ClearCurrentSelection ==
    /\ ~panicked
    /\ selected' = FALSE
    /\ last_call' = [op |-> "clear_current_selection"]
    /\ UNCHANGED <<cacheVars, chatVars, current_chat_id, is_streaming,
                   abort_handle, gens, title_selected, title_tasks, fetchVars>>

TaskStep(g) ==
    \/ \E read_ok \in BOOLEAN : TaskStart(g, read_ok)
    \/ \E chat_ok, ok \in BOOLEAN : TaskChatResponse(g, chat_ok, ok)
    \/ \E item \in StreamItems, ok \in BOOLEAN : TaskNext(g, item, ok)

\* The streaming specifications follow one chat, whose place in the ordered
\* cache no other chat contends for, at one reading of the clock.
NextStream ==
    \/ \E has_text, create_ok, user_ok, asst_ok \in BOOLEAN :
          OnEnter(has_text, create_ok, user_ok, asst_ok)
    \/ \E has_text, create_ok, user_ok, asst_ok \in BOOLEAN :
          OnClick(has_text, create_ok, user_ok, asst_ok)
    \/ \E g \in GenIds : TaskStep(g)
    \/ SelectModel
    \/ ClearCurrentSelection
    \/ \E has_provider, has_model, create_ok, user_ok, asst_ok \in BOOLEAN :
          SendUnselected(has_provider, has_model, create_ok, user_ok, asst_ok)

SpecStream == Init /\ [][NextStream]_vars

\* The generations of the runs that are checked for progress.
FairGenIds == {1, 2}

OnlyFairGens ==
    /\ \A g \in GenIds \ FairGenIds : gens[g].pc = "unused"
    /\ Cardinality(DOMAIN db_messages) <= 2 * Cardinality(FairGenIds)

NextStreamFair ==
    \/ \E has_text, create_ok, user_ok, asst_ok \in BOOLEAN :
          OnEnter(has_text, create_ok, user_ok, asst_ok) /\ OnlyFairGens'
    \/ \E has_text, create_ok, user_ok, asst_ok \in BOOLEAN :
          OnClick(has_text, create_ok, user_ok, asst_ok) /\ OnlyFairGens'
    \/ \E g \in GenIds : TaskStep(g)
    \/ SelectModel
    \/ ClearCurrentSelection

\* The executor goes on polling spawned tasks, and every provider call and
\* every response stream resolves.
SpecStreamFair ==
    Init /\ [][NextStreamFair]_vars /\ WF_vars(\E g \in GenIds : TaskStep(g))

\* ---------------------------------------------------------- the title task

\* The longest title a title stream builds.
MaxTitleLen == 2

\* The chunks of a title stream: a blank, or a letter.
TitleChunks == {<<" ">>, <<"t">>}

TitleItems ==
    {Some(Ok(chunk)) : chunk \in TitleChunks} \cup {Some(Err("stream")), None}

\* str::trim, on a string kept as the sequence of its characters.
RECURSIVE TrimStart(_)
TrimStart(t) ==
    IF t = <<>> THEN t
    ELSE IF Head(t) = " " THEN TrimStart(Tail(t))
    ELSE t

RECURSIVE TrimEnd(_)
TrimEnd(t) ==
    IF t = <<>> THEN t
    ELSE IF t[Len(t)] = " " THEN TrimEnd(SubSeq(t, 1, Len(t) - 1))
    ELSE t

Trim(t) == TrimEnd(TrimStart(t))

\* chat.title.update(..): the title entity of the chat is set.
UpdateTitleEntity(a, chat_id, title) ==
    [a EXCEPT !.s.chat_mem[chat_id].title = title]

\* Chat::set_title: the title is written to the chat's row and to its entity.
SetTitle(a, chat_id, title) ==
    [a EXCEPT !.s.db_chats[chat_id].title = title,
              !.s.chat_mem[chat_id].title = title]

\* Mutant: the title task runs under the abort handle of the main stream.
TitlePollNext_Abortable(a, chat_id, item) ==
    IF a.abort_handle # <<"None">> /\ a.gens[a.abort_handle[2]].aborted
    THEN [a EXCEPT !.title_tasks[chat_id].pc = "done"]
    ELSE IF item[1] = "Some" /\ item[2][1] = "Ok"
    THEN [a EXCEPT !.title_tasks[chat_id].title = @ \o item[2][2]]
    ELSE [a EXCEPT !.title_tasks[chat_id].pc = "done"]

\* The poll of the title task in which response.next() has resolved: a chunk
\* is added to the title and the trimmed title, when not empty, is shown;
\* anything else ends the loop, and the trimmed title, when not empty, is
\* persisted.
TitlePollNext(a, chat_id, item) ==
    IF IsChunk(item)
    THEN LET title == a.title_tasks[chat_id].title \o item[2][2]
             a1 == [a EXCEPT !.title_tasks[chat_id].title = title]
         IN  IF Trim(title) # <<>>
             THEN UpdateTitleEntity(a1, chat_id, Trim(title))
             ELSE a1
    ELSE LET final_title == Trim(a.title_tasks[chat_id].title)
             a1 == [a EXCEPT !.title_tasks[chat_id].pc = "done"]
         IN  IF final_title # <<>>
             THEN SetTitle(a1, chat_id, final_title)
             ELSE a1

\* First poll of the title task: the prompt is built and the chat call of
\* the chat-titles provider is issued.
TitleStart(chat_id) ==
    /\ ~panicked
    /\ chat_id \in DOMAIN title_tasks
    /\ title_tasks[chat_id].pc = "spawned"
    /\ SetApp([App EXCEPT !.title_tasks[chat_id].pc = "chat_call"])
    /\ last_call' = [op |-> "title_poll", chat_id |-> chat_id,
                     at |-> "spawned", item |-> None]
    /\ UNCHANGED <<cache, clock, selected, fetchVars>>

\* The poll in which the chat call has resolved: if let Ok(mut response).
TitleChatResponse(chat_id, chat_ok) ==
    /\ ~panicked
    /\ chat_id \in DOMAIN title_tasks
    /\ title_tasks[chat_id].pc = "chat_call"
    /\ SetApp([App EXCEPT !.title_tasks[chat_id].pc =
                             IF chat_ok THEN "streaming" ELSE "done"])
    /\ last_call' = [op |-> "title_poll", chat_id |-> chat_id,
                     at |-> "chat_call", item |-> None]
    /\ UNCHANGED <<cache, clock, selected, fetchVars>>

TitleNext(chat_id, item) ==
    /\ ~panicked
    /\ chat_id \in DOMAIN title_tasks
    /\ title_tasks[chat_id].pc = "streaming"
    /\ IsChunk(item) =>
          Len(title_tasks[chat_id].title) + Len(item[2][2]) <= MaxTitleLen
    /\ SetApp(TitlePollNext(App, chat_id, item))
    /\ last_call' = [op |-> "title_poll", chat_id |-> chat_id,
                     at |-> "streaming", item |-> item]
    /\ UNCHANGED <<cache, clock, selected, fetchVars>>

TitleStep(chat_id) ==
    \/ TitleStart(chat_id)
    \/ \E chat_ok \in BOOLEAN : TitleChatResponse(chat_id, chat_ok)
    \/ \E item \in TitleItems : TitleNext(chat_id, item)

\* The chat-titles picker's item click: set_chat_titles_provider and
\* set_chat_titles_model.
SelectChatTitlesModel ==
    /\ ~panicked
    /\ ~title_selected
    /\ title_selected' = TRUE
    /\ last_call' = [op |-> "select_chat_titles_model"]
    /\ UNCHANGED <<cacheVars, chatVars, selected, current_chat_id,
                   is_streaming, abort_handle, gens, title_tasks, fetchVars>>

\* One chat, its title task and the generations of FairGenIds.
NextTitle ==
    \/ \E has_text, create_ok, user_ok, asst_ok \in BOOLEAN :
          OnEnter(has_text, create_ok, user_ok, asst_ok) /\ OnlyFairGens'
    \/ \E has_text, create_ok, user_ok, asst_ok \in BOOLEAN :
          OnClick(has_text, create_ok, user_ok, asst_ok) /\ OnlyFairGens'
    \/ \E g \in GenIds : TaskStep(g)
    \/ SelectModel
    \/ SelectChatTitlesModel
    \/ \E chat_id \in ChatIds : TitleStep(chat_id)

SpecTitle == Init /\ [][NextTitle]_vars

\* ------------------------------------------------ model catalog and its gate

\* const MODEL_FETCH_COOLDOWN_SECS
MODEL_FETCH_COOLDOWN_SECS == 120

\* The instants at which the clock is read.
Instants == {0, 120}

\* What list_models() resolves to: a catalog, or an error.
Catalogs == {<<"m1">>, <<"m1", "m2">>}

ListResults == {Ok(models) : models \in Catalogs} \cup {Err("network")}

\* hash_api_key: SHA-256 of the key, kept as the digest of that key.
HashApiKey(api_key) == <<"sha256", api_key>>

\* CachedProviderState::new
NewCachedProviderState(url, api_key) ==
    [url |-> url, api_key_hash |-> HashApiKey(api_key)]

\* Mutant: an entry is stale only after the cooldown has been exceeded.
IsProviderStale_Strict(pp, provider_id, now) ==
    IF provider_id \in DOMAIN pp
    THEN now - pp[provider_id].fetched_at > 120
    ELSE TRUE

\* Mutant: the stored catalog is returned whatever its age.
GetProviderModels_IgnoresAge(pp, provider_id, now) ==
    IF provider_id \notin DOMAIN pp THEN <<"None">>
    ELSE <<"Some", <<pp[provider_id].provider_name, pp[provider_id].models>>>>

\* ModelsCache::is_provider_stale
IsProviderStale(pp, provider_id, now) ==
    IF provider_id \in DOMAIN pp
    THEN now - pp[provider_id].fetched_at >= MODEL_FETCH_COOLDOWN_SECS
    ELSE TRUE

\* ModelsCache::get_provider_models
GetProviderModels(pp, provider_id, now) ==
    IF provider_id \notin DOMAIN pp THEN None
    ELSE IF now - pp[provider_id].fetched_at < MODEL_FETCH_COOLDOWN_SECS
    THEN Some(<<pp[provider_id].provider_name, pp[provider_id].models>>)
    ELSE None

\* Mutant: the list is filled without being cleared first.
RebuildAllModels_NoClear(all, pp) ==
    LET entries == UNION {{[provider_id |-> q,
                            provider_name |-> pp[q].provider_name,
                            model_id |-> pp[q].models[i]] :
                              i \in DOMAIN pp[q].models} : q \in DOMAIN pp}
    IN  [e \in entries \cup DOMAIN all |->
           (IF e \in DOMAIN all THEN 1 ELSE 0)
             + (IF e \in entries THEN 1 ELSE 0)]

\* ModelsCache::rebuild_all_models: the list is cleared and filled from
\* per_provider. The HashMap is iterated in no particular order, so the list
\* is kept as the bag of its entries: entry -> number of occurrences.
RebuildAllModels(all, pp) ==
    LET entries == UNION {{[provider_id |-> q,
                            provider_name |-> pp[q].provider_name,
                            model_id |-> pp[q].models[i]] :
                              i \in DOMAIN pp[q].models} : q \in DOMAIN pp}
    IN  [e \in entries |->
           Cardinality({i \in DOMAIN pp[e.provider_id].models :
                           pp[e.provider_id].models[i] = e.model_id})]

\* ModelsCache::refresh_models_for_provider: the per_provider it leaves.
RefreshModelsForProvider(pp, provider_id, provider_name, models, now) ==
    MapInsert(pp, provider_id, [models |-> models,
                                provider_name |-> provider_name,
                                fetched_at |-> now])

\* Mutant: the provider's fingerprint outlives its catalog.
DeleteModelsForProvider_KeepsFingerprint(pp, cc, provider_id) ==
    [per_provider |-> [x \in (DOMAIN pp) \ {provider_id} |-> pp[x]],
     provider_config_cache |-> cc]

\* ModelsCache::delete_models_for_provider: the two maps it leaves.
DeleteModelsForProvider(pp, cc, provider_id) ==
    [per_provider |-> MapRemove(pp, provider_id),
     provider_config_cache |-> MapRemove(cc, provider_id)]

\* The record of a refresh call kept as history.
RefreshCall(provider_name, models, now) ==
    [provider_name |-> provider_name, models |-> models, at |-> now]

\* Mutant: a new fingerprint starts from an empty URL and an empty key.
GetOrCreateConfigCache_Blank(cc, provider_id, current_url, current_api_key) ==
    IF provider_id \in DOMAIN cc THEN cc
    ELSE MapInsert(cc, provider_id, [url |-> "", api_key_hash |-> <<"sha256", "">>])

\* ModelsCache::get_or_create_config_cache
GetOrCreateConfigCache(cc, provider_id, current_url, current_api_key) ==
    IF provider_id \in DOMAIN cc THEN cc
    ELSE MapInsert(cc, provider_id,
                   NewCachedProviderState(current_url, current_api_key))

\* Option<String>::unwrap_or_default and as_deref().unwrap_or("")
KeyOrEmpty(api_key) == IF api_key = None THEN "" ELSE api_key[2]

\* ProviderConfigChange: Create, Url(String), ApiKey(Option<String>); the
\* url of Url is kept as Some(url).
ConfigChanges ==
    {[kind |-> "Create", value |-> None]}
       \cup {[kind |-> "Url", value |-> Some(url)] : url \in Urls}
       \cup {[kind |-> "ApiKey", value |-> k] : k \in {None, Some("k")}}

\* Mutant: a change is reported and the fingerprint is left as it was.
CheckAndUpdateConfigCache_NoStore(cc, provider_id, config_change, url, api_key) ==
    LET cc1 == IF provider_id \in DOMAIN cc THEN cc
               ELSE MapInsert(cc, provider_id,
                              [url |-> url, api_key_hash |-> <<"sha256", api_key>>])
        key == IF config_change.value = <<"None">> THEN ""
               ELSE config_change.value[2]
    IN  IF config_change.kind = "Create" THEN [cache |-> cc1, ret |-> TRUE]
        ELSE IF config_change.kind = "Url"
        THEN [cache |-> cc1, ret |-> cc1[provider_id].url # key]
        ELSE [cache |-> cc1,
              ret |-> cc1[provider_id].api_key_hash # <<"sha256", key>>]

\* Mutant: every Url or ApiKey change is taken for a change.
CheckAndUpdateConfigCache_AlwaysProceed(cc, provider_id, config_change, url, api_key) ==
    LET cc1 == IF provider_id \in DOMAIN cc THEN cc
               ELSE MapInsert(cc, provider_id,
                              [url |-> url, api_key_hash |-> <<"sha256", api_key>>])
        key == IF config_change.value = <<"None">> THEN ""
               ELSE config_change.value[2]
    IN  IF config_change.kind = "Create" THEN [cache |-> cc1, ret |-> TRUE]
        ELSE IF config_change.kind = "Url"
        THEN [cache |-> [cc1 EXCEPT ![provider_id].url = key], ret |-> TRUE]
        ELSE [cache |-> [cc1 EXCEPT ![provider_id].api_key_hash =
                                       <<"sha256", key>>],
              ret |-> TRUE]

\* check_and_update_config_cache: the cache it leaves and whether to proceed.
CheckAndUpdateConfigCache(cc, provider_id, config_change, url, api_key) ==
    LET cc1 == GetOrCreateConfigCache(cc, provider_id, url, api_key)
        key == KeyOrEmpty(config_change.value)
    IN  IF config_change.kind = "Create" THEN [cache |-> cc1, ret |-> TRUE]
        ELSE IF config_change.kind = "Url"
        THEN IF cc1[provider_id].url # config_change.value[2]
             THEN [cache |-> [cc1 EXCEPT ![provider_id].url = config_change.value[2]],
                   ret |-> TRUE]
             ELSE [cache |-> cc1, ret |-> FALSE]
        ELSE IF cc1[provider_id].api_key_hash # HashApiKey(key)
             THEN [cache |-> [cc1 EXCEPT
                                ![provider_id].api_key_hash = HashApiKey(key)],
                   ret |-> TRUE]
             ELSE [cache |-> cc1, ret |-> FALSE]

\* Mutant: the gate is set without looking at what it held.
TrySetGate_Blind(flag) == [flag |-> TRUE, prev |-> FALSE]

\* Mutant: the gate is flipped instead of set.
TrySetGate_Toggle(flag) == [flag |-> ~flag, prev |-> flag]

\* FETCH_IN_PROGRESS.swap(true, Ordering::SeqCst): the flag it leaves and the
\* value it held.
TrySetGate(flag) == [flag |-> TRUE, prev |-> flag]

\* Mutant: the menu sweep lists every provider, fresh or not.
SweepSkip_ListsAll(kind, todo, pp, now) == todo

\* The for loop of a sweep up to its next list_models().await: the providers
\* left, the first of them the one to fetch. fetch_all_models_with_source
\* passes over the providers whose cached catalog is fresh.
RECURSIVE SweepSkip(_, _, _, _)
SweepSkip(kind, todo, pp, now) ==
    IF todo = <<>> THEN <<>>
    ELSE IF /\ kind = "fetch_all_models_with_source"
            /\ ~IsProviderStale(pp, Head(todo), now)
            /\ GetProviderModels(pp, Head(todo), now) # None
    THEN SweepSkip(kind, Tail(todo), pp, now)
    ELSE todo

SweepKinds == {"prefetch_all_models", "fetch_all_models_with_source"}

FreeSweep == CHOOSE t \in SweepIds : sweeps[t].pc = "idle"

FreeFetch == CHOOSE t \in FetchIds : fetches[t].pc = "idle"

\* prefetch_all_models / fetch_all_models_with_source, up to the spawn.
RequestSweep(kind) ==
    LET r == TrySetGate(fetch_in_progress)
    IN  /\ \E t \in SweepIds : sweeps[t].pc = "idle"
        /\ fetch_in_progress' = r.flag
        /\ IF r.prev
           THEN /\ sweeps' = sweeps
                /\ last_call' = [op |-> kind, ret |-> "dropped"]
           ELSE /\ sweeps' = [sweeps EXCEPT ![FreeSweep] =
                                 [pc |-> "spawned", kind |-> kind, todo |-> <<>>]]
                /\ last_call' = [op |-> kind, ret |-> "spawned"]
        /\ UNCHANGED <<cacheVars, chatVars, streamVars, fetches, per_provider,
                       catalogVars, provider_config_cache, registryVars,
                       provider_url, provider_api_key, instant>>

\* The sweep goes on from todo: it suspends in the next provider call, or it
\* ends and resets the gate.
SweepGoesOn(t, todo) ==
    IF todo = <<>>
    THEN /\ sweeps' = [sweeps EXCEPT ![t] = IdleSweep]
         /\ fetch_in_progress' = FALSE
    ELSE /\ sweeps' = [sweeps EXCEPT ![t].pc = "listing", ![t].todo = todo]
         /\ fetch_in_progress' = fetch_in_progress

\* providers.iter() collected: the providers of the map, in its order.
CollectProviders(urls) ==
    SelectSeq(ProvidersInfo, LAMBDA provider_id : provider_id \in DOMAIN urls)

\* First poll of a sweep task: the providers are collected and the loop runs
\* to its first provider call.
SweepStart(t) ==
    /\ sweeps[t].pc = "spawned"
    /\ SweepGoesOn(t, SweepSkip(sweeps[t].kind, CollectProviders(provider_url),
                                per_provider, instant))
    /\ last_call' = [op |-> "sweep_poll", listed |-> "nothing", ret |-> Unit]
    /\ UNCHANGED <<cacheVars, chatVars, streamVars, fetches, per_provider,
                   catalogVars, provider_config_cache, registryVars,
                   provider_url, provider_api_key, instant>>

\* Mutant: a failed provider call ends the sweep.
SweepListed_StopsOnError(t, result) ==
    /\ sweeps[t].pc = "listing"
    /\ per_provider' =
          IF IsOk(result)
          THEN RefreshModelsForProvider(per_provider, Head(sweeps[t].todo),
                                        DefaultName, result[2], instant)
          ELSE per_provider
    /\ all_models' = IF IsOk(result)
                     THEN RebuildAllModels(all_models, per_provider')
                     ELSE all_models
    /\ refreshes' = IF IsOk(result)
                    THEN MapInsert(refreshes, Head(sweeps[t].todo),
                                   RefreshCall(DefaultName, result[2], instant))
                    ELSE refreshes
    /\ SweepGoesOn(t, IF IsOk(result)
                      THEN SweepSkip(sweeps[t].kind, Tail(sweeps[t].todo),
                                     per_provider', instant)
                      ELSE <<>>)
    /\ last_call' = [op |-> "sweep_poll", listed |-> result[1], ret |-> Unit]
    /\ UNCHANGED <<cacheVars, chatVars, streamVars, fetches,
                   provider_config_cache, registryVars, provider_url,
                   provider_api_key, instant>>

\* The provider call of a sweep has resolved: the catalog is cached, or the
\* error is logged, and the loop goes on.
SweepListed(t, result) ==
    LET provider_id == Head(sweeps[t].todo)
        pp1 == IF IsOk(result)
               THEN RefreshModelsForProvider(per_provider, provider_id,
                                             DefaultName, result[2], instant)
               ELSE per_provider
    IN  /\ sweeps[t].pc = "listing"
        /\ per_provider' = pp1
        /\ all_models' = IF IsOk(result)
                         THEN RebuildAllModels(all_models, pp1)
                         ELSE all_models
        /\ refreshes' = IF IsOk(result)
                        THEN MapInsert(refreshes, provider_id,
                                       RefreshCall(DefaultName, result[2], instant))
                        ELSE refreshes
        /\ SweepGoesOn(t, SweepSkip(sweeps[t].kind, Tail(sweeps[t].todo), pp1,
                                    instant))
        /\ last_call' = [op |-> "sweep_poll", listed |-> result[1], ret |-> Unit]
        /\ UNCHANGED <<cacheVars, chatVars, streamVars, fetches,
                       provider_config_cache, registryVars, provider_url,
                       provider_api_key, instant>>

\* The future of a sweep is dropped while it is suspended in a provider
\* call: nothing after the await runs.
DropSweepTask(t) ==
    /\ sweeps[t].pc = "listing"
    /\ sweeps' = [sweeps EXCEPT ![t] = IdleSweep]
    /\ last_call' = [op |-> "drop_sweep", ret |-> Unit]
    /\ UNCHANGED <<cacheVars, chatVars, streamVars, fetch_in_progress, fetches,
                   per_provider, catalogVars, provider_config_cache,
                   registryVars, provider_url, provider_api_key, instant>>

\* apply_config_change: edit_provider_url / edit_provider_api_key.
ApplyUrl(urls, provider_id, config_change) ==
    IF config_change.kind = "Url"
    THEN [urls EXCEPT ![provider_id] = config_change.value[2]]
    ELSE urls

\* edit_provider_url: the UPDATE of the provider's row.
ApplyRow(rows, provider_id, config_change) ==
    IF config_change.kind = "Url" /\ provider_id \in DOMAIN rows
    THEN [rows EXCEPT ![provider_id].url = config_change.value[2]]
    ELSE rows

ApplyApiKey(keys, provider_id, config_change) ==
    IF config_change.kind = "ApiKey"
    THEN [keys EXCEPT ![provider_id] =
            IF KeyOrEmpty(config_change.value) = "" THEN None
            ELSE config_change.value]
    ELSE keys

\* refetch_provider_models with spawn_fetch_models.
RefetchProviderModels(provider_id, config_change) ==
    LET r == CheckAndUpdateConfigCache(provider_config_cache, provider_id,
                                       config_change, provider_url[provider_id],
                                       KeyOrEmpty(provider_api_key[provider_id]))
    IN  /\ \E t \in FetchIds : fetches[t].pc = "idle"
        /\ IF config_change.kind = "Create"
           THEN /\ UNCHANGED <<provider_config_cache, db_providers,
                               provider_url, provider_api_key>>
                /\ fetches' = [fetches EXCEPT ![FreeFetch] =
                                  [pc |-> "spawned", provider_id |-> provider_id]]
                /\ last_call' = [op |-> "refetch_provider_models",
                                 ret |-> "spawned"]
           ELSE IF ~r.ret
           THEN /\ provider_config_cache' = r.cache
                /\ UNCHANGED <<db_providers, provider_url, provider_api_key,
                               fetches>>
                /\ last_call' = [op |-> "refetch_provider_models",
                                 ret |-> "unchanged"]
           ELSE /\ provider_config_cache' = r.cache
                /\ db_providers' = ApplyRow(db_providers, provider_id,
                                            config_change)
                /\ provider_url' = ApplyUrl(provider_url, provider_id, config_change)
                /\ provider_api_key' =
                      ApplyApiKey(provider_api_key, provider_id, config_change)
                /\ fetches' = [fetches EXCEPT ![FreeFetch] =
                                  [pc |-> "spawned", provider_id |-> provider_id]]
                /\ last_call' = [op |-> "refetch_provider_models",
                                 ret |-> "spawned"]
        /\ UNCHANGED <<cacheVars, chatVars, streamVars, fetch_in_progress,
                       sweeps, per_provider, catalogVars, issued_ids, instant>>

\* The task of spawn_fetch_models after its first poll: it owns a clone of the
\* provider, whose inner client was built from the URL and the API key the
\* provider had at that moment.
ListingFetch(provider_id, url, api_key) ==
    [pc |-> "listing", provider_id |-> provider_id, url |-> url,
     api_key |-> api_key]

\* Mutant: the task waits for the gate before it lists.
FetchStart_Gated(t) ==
    /\ fetches[t].pc = "spawned"
    /\ ~fetch_in_progress
    /\ fetches' = IF fetches[t].provider_id \in DOMAIN provider_url
                  THEN [fetches EXCEPT ![t] =
                           ListingFetch(fetches[t].provider_id,
                                        provider_url[fetches[t].provider_id],
                                        provider_api_key[fetches[t].provider_id])]
                  ELSE [fetches EXCEPT ![t] = IdleFetch]
    /\ last_call' = [op |-> "fetch_poll", ret |-> Unit]
    /\ UNCHANGED <<cacheVars, chatVars, streamVars, fetch_in_progress, sweeps,
                   per_provider, catalogVars, provider_config_cache,
                   registryVars, provider_url, provider_api_key, instant>>

\* First poll of a task of spawn_fetch_models: the provider is looked up and
\* cloned, and the list_models call of the clone is issued.
FetchStart(t) ==
    /\ fetches[t].pc = "spawned"
    /\ fetches' = IF fetches[t].provider_id \in DOMAIN provider_url
                  THEN [fetches EXCEPT ![t] =
                           ListingFetch(fetches[t].provider_id,
                                        provider_url[fetches[t].provider_id],
                                        provider_api_key[fetches[t].provider_id])]
                  ELSE [fetches EXCEPT ![t] = IdleFetch]
    /\ last_call' = [op |-> "fetch_poll", ret |-> Unit]
    /\ UNCHANGED <<cacheVars, chatVars, streamVars, fetch_in_progress, sweeps,
                   per_provider, catalogVars, provider_config_cache,
                   registryVars, provider_url, provider_api_key, instant>>

\* The provider call of spawn_fetch_models has resolved.
FetchListed(t, result) ==
    /\ fetches[t].pc = "listing"
    /\ per_provider' =
          IF IsOk(result)
          THEN RefreshModelsForProvider(per_provider, fetches[t].provider_id,
                                        DefaultName, result[2], instant)
          ELSE per_provider
    /\ all_models' = IF IsOk(result)
                     THEN RebuildAllModels(all_models, per_provider')
                     ELSE all_models
    /\ refreshes' = IF IsOk(result)
                    THEN MapInsert(refreshes, fetches[t].provider_id,
                                   RefreshCall(DefaultName, result[2], instant))
                    ELSE refreshes
    /\ fetches' = [fetches EXCEPT ![t] = IdleFetch]
    /\ last_call' = [op |-> "fetch_poll", ret |-> Unit]
    /\ UNCHANGED <<cacheVars, chatVars, streamVars, fetch_in_progress, sweeps,
                   provider_config_cache, registryVars, provider_url,
                   provider_api_key, instant>>

\* Time passes, to the next instant the clock is read at.
AdvanceTime ==
    /\ \E i \in Instants : i > instant
    /\ instant' = CHOOSE i \in Instants :
                     i > instant /\ \A j \in Instants : j > instant => i <= j
    /\ last_call' = [op |-> "advance_time", ret |-> Unit]
    /\ UNCHANGED <<cacheVars, chatVars, streamVars, fetch_in_progress, sweeps,
                   fetches, per_provider, catalogVars, provider_config_cache,
                   registryVars, provider_url, provider_api_key>>

NextFetch ==
    \/ \E kind \in SweepKinds : RequestSweep(kind)
    \/ \E t \in SweepIds : SweepStart(t)
    \/ \E t \in SweepIds, result \in ListResults : SweepListed(t, result)
    \/ \E t \in SweepIds : DropSweepTask(t)
    \/ \E provider_id \in Providers :
          RefetchProviderModels(provider_id, [kind |-> "Create", value |-> None])
    \/ \E t \in FetchIds : FetchStart(t)
    \/ \E t \in FetchIds, result \in ListResults : FetchListed(t, result)
    \/ AdvanceTime

SpecFetch == Init /\ [][NextFetch]_vars

\* Configuration changes and the fetches they start, without the sweeps.
NextRefetch ==
    \/ \E provider_id \in Providers, config_change \in ConfigChanges :
          RefetchProviderModels(provider_id, config_change)
    \/ \E t \in FetchIds : FetchStart(t)
    \/ \E t \in FetchIds, result \in ListResults : FetchListed(t, result)

SpecRefetch == Init /\ [][NextRefetch]_vars

\* The answer of provider.inner.list_models() of a client built from that URL
\* and key, in an environment where every server keeps one catalog and every
\* call succeeds: a change of the URL or of the key alone changes the answer.
ServedModels(url, api_key) ==
    IF (url = "u1") = (api_key = None) THEN <<"m1">> ELSE <<"m1", "m2">>

\* Configuration changes and the fetches they start, each fetch answered with
\* the catalog of the configuration its client was built from.
NextServed ==
    \/ \E provider_id \in Providers, config_change \in ConfigChanges :
          RefetchProviderModels(provider_id, config_change)
    \/ \E t \in FetchIds : FetchStart(t)
    \/ \E t \in FetchIds :
          /\ fetches[t].pc = "listing"
          /\ FetchListed(t, Ok(ServedModels(fetches[t].url,
                                            fetches[t].api_key)))

SpecServed == Init /\ [][NextServed]_vars

\* ------------------------------------------------ the catalog cache alone

\* The instants at which the cache is called.
CacheInstants == {0, 60, 120, 121}

\* The names and the catalogs that refresh_models_for_provider is given.
ProviderNames == {"Ollama", "OpenAI"}

ModelLists == {<<>>, <<"a">>, <<"a", "b">>}

CallRefreshModelsForProvider(provider_id, provider_name, models) ==
    /\ per_provider' = RefreshModelsForProvider(per_provider, provider_id,
                                                provider_name, models, instant)
    /\ all_models' = RebuildAllModels(all_models, per_provider')
    /\ refreshes' = MapInsert(refreshes, provider_id,
                              RefreshCall(provider_name, models, instant))
    /\ last_call' = [op |-> "refresh_models_for_provider",
                     provider_id |-> provider_id, ret |-> Unit]
    /\ UNCHANGED <<cacheVars, chatVars, streamVars, fetch_in_progress, sweeps,
                   fetches, provider_config_cache, registryVars, provider_url,
                   provider_api_key, instant>>

CallDeleteModelsForProvider(provider_id) ==
    LET r == DeleteModelsForProvider(per_provider, provider_config_cache,
                                     provider_id)
    IN  /\ per_provider' = r.per_provider
        /\ provider_config_cache' = r.provider_config_cache
        /\ all_models' = RebuildAllModels(all_models, per_provider')
        /\ last_call' = [op |-> "delete_models_for_provider",
                         provider_id |-> provider_id, ret |-> Unit]
        /\ UNCHANGED <<cacheVars, chatVars, streamVars, fetch_in_progress,
                       sweeps, fetches, refreshes, registryVars, provider_url,
                       provider_api_key, instant>>

CallIsProviderStale(provider_id) ==
    /\ last_call' = [op |-> "is_provider_stale", provider_id |-> provider_id,
                     ret |-> IsProviderStale(per_provider, provider_id, instant)]
    /\ UNCHANGED <<cacheVars, chatVars, streamVars, fetchVars>>

CallGetProviderModels(provider_id) ==
    /\ last_call' = [op |-> "get_provider_models", provider_id |-> provider_id,
                     ret |-> GetProviderModels(per_provider, provider_id,
                                               instant)]
    /\ UNCHANGED <<cacheVars, chatVars, streamVars, fetchVars>>

\* Time passes, to the next instant the cache is called at.
Elapse ==
    /\ \E i \in CacheInstants : i > instant
    /\ instant' = CHOOSE i \in CacheInstants :
                     i > instant /\ \A j \in CacheInstants : j > instant => i <= j
    /\ last_call' = [op |-> "elapse", provider_id |-> 0, ret |-> Unit]
    /\ UNCHANGED <<cacheVars, chatVars, streamVars, fetch_in_progress, sweeps,
                   fetches, per_provider, catalogVars, provider_config_cache,
                   registryVars, provider_url, provider_api_key>>

NextModelsCache ==
    \/ \E provider_id \in Providers, provider_name \in ProviderNames,
          models \in ModelLists :
             CallRefreshModelsForProvider(provider_id, provider_name, models)
    \/ \E provider_id \in Providers : CallDeleteModelsForProvider(provider_id)
    \/ \E provider_id \in Providers : CallIsProviderStale(provider_id)
    \/ \E provider_id \in Providers : CallGetProviderModels(provider_id)
    \/ Elapse

SpecModelsCache == Init /\ [][NextModelsCache]_vars

\* ------------------------------------------------- providers and their keys

\* The provider ids there are: the two configured ones, and the one
\* UniqueId::new gives to a provider made later.
ProviderIds == Providers \cup {3}

\* The providers the operations are called on; provider 1 stands by.
TargetIds == ProviderIds \ {1}

\* The API keys a provider is given: none, or the key "k".
ApiKeys == {None, Some("k")}

\* The key texts, as they would appear in a row or a cache entry.
KeyTexts == {"k"}

\* The configuration changes check_and_update_config_cache is called with:
\* refetch_provider_models passes it every change but Create.
DetectedChanges == {c \in ConfigChanges : c.kind # "Create"}

\* providers.get(provider_id).map(url).unwrap_or_default()
CurrentUrl(urls, provider_id) ==
    IF provider_id \in DOMAIN urls THEN urls[provider_id] ELSE ""

\* ModelsManager::get_provider_api_key
GetProviderApiKey(urls, keys, provider_id) ==
    IF provider_id \in DOMAIN urls /\ provider_id \in DOMAIN keys
    THEN keys[provider_id]
    ELSE None

\* ModelsManager::new_provider
NewProvider(url, api_key) ==
    /\ ProviderIds \ issued_ids # {}
    /\ LET provider_id == CHOOSE i \in ProviderIds \ issued_ids :
                              \A j \in ProviderIds \ issued_ids : i <= j
       IN  /\ issued_ids' = issued_ids \cup {provider_id}
           /\ db_providers' = MapInsert(db_providers, provider_id,
                                        NewProviderRow(DefaultName, url, api_key))
           /\ provider_api_key' = MapInsert(provider_api_key, provider_id,
                                            api_key)
           /\ provider_url' = MapInsert(provider_url, provider_id, url)
           /\ last_call' = [op |-> "new_provider", provider_id |-> provider_id,
                            ret |-> Ok(provider_id)]
    /\ UNCHANGED <<cacheVars, chatVars, streamVars, fetch_in_progress, sweeps,
                   fetches, per_provider, catalogVars, provider_config_cache,
                   instant>>

\* ModelsManager::edit_provider_url
EditProviderUrl(provider_id, url) ==
    LET change == [kind |-> "Url", value |-> Some(url)]
    IN  /\ IF provider_id \notin DOMAIN provider_url
           THEN /\ UNCHANGED <<db_providers, provider_url>>
                /\ last_call' = [op |-> "edit_provider_url",
                                 provider_id |-> provider_id,
                                 ret |-> Err("MissingData")]
           ELSE /\ db_providers' = ApplyRow(db_providers, provider_id, change)
                /\ provider_url' = ApplyUrl(provider_url, provider_id, change)
                /\ last_call' = [op |-> "edit_provider_url",
                                 provider_id |-> provider_id, ret |-> Ok(Unit)]
        /\ UNCHANGED <<cacheVars, chatVars, streamVars, fetch_in_progress,
                       sweeps, fetches, per_provider, catalogVars,
                       provider_config_cache, issued_ids, provider_api_key,
                       instant>>

\* ModelsManager::edit_provider_api_key
EditProviderApiKey(provider_id, api_key) ==
    LET change == [kind |-> "ApiKey", value |-> api_key]
    IN  /\ IF provider_id \notin DOMAIN provider_url
           THEN /\ UNCHANGED provider_api_key
                /\ last_call' = [op |-> "edit_provider_api_key",
                                 provider_id |-> provider_id,
                                 ret |-> Err("MissingData")]
           ELSE /\ provider_api_key' =
                      ApplyApiKey(provider_api_key, provider_id, change)
                /\ last_call' = [op |-> "edit_provider_api_key",
                                 provider_id |-> provider_id, ret |-> Ok(Unit)]
        /\ UNCHANGED <<cacheVars, chatVars, streamVars, fetch_in_progress,
                       sweeps, fetches, per_provider, catalogVars,
                       provider_config_cache, registryVars, provider_url,
                       instant>>

\* ModelsManager::delete_provider
DeleteProvider(provider_id) ==
    LET r == DeleteModelsForProvider(per_provider, provider_config_cache,
                                     provider_id)
    IN  /\ IF provider_id \notin DOMAIN provider_url
           THEN /\ UNCHANGED <<db_providers, provider_api_key, per_provider,
                               provider_config_cache, all_models, provider_url>>
                /\ last_call' = [op |-> "delete_provider",
                                 provider_id |-> provider_id,
                                 ret |-> Err("MissingData")]
           ELSE /\ db_providers' = MapRemove(db_providers, provider_id)
                /\ provider_api_key' = MapRemove(provider_api_key, provider_id)
                /\ per_provider' = r.per_provider
                /\ provider_config_cache' = r.provider_config_cache
                /\ all_models' = RebuildAllModels(all_models, per_provider')
                /\ provider_url' = MapRemove(provider_url, provider_id)
                /\ last_call' = [op |-> "delete_provider",
                                 provider_id |-> provider_id, ret |-> Ok(Unit)]
        /\ UNCHANGED <<cacheVars, chatVars, streamVars, fetch_in_progress,
                       sweeps, fetches, refreshes, issued_ids, instant>>

\* check_and_update_config_cache, as refetch_provider_models calls it.
CallCheckAndUpdateConfigCache(provider_id, config_change) ==
    LET r == CheckAndUpdateConfigCache(
                provider_config_cache, provider_id, config_change,
                CurrentUrl(provider_url, provider_id),
                KeyOrEmpty(GetProviderApiKey(provider_url, provider_api_key,
                                             provider_id)))
    IN  /\ provider_config_cache' = r.cache
        /\ last_call' = [op |-> "check_and_update_config_cache",
                         provider_id |-> provider_id,
                         config_change |-> config_change,
                         created |-> provider_id \notin DOMAIN provider_config_cache,
                         ret |-> r.ret]
        /\ UNCHANGED <<cacheVars, chatVars, streamVars, fetch_in_progress,
                       sweeps, fetches, per_provider, catalogVars,
                       registryVars, provider_url, provider_api_key, instant>>

NextProviders ==
    \/ \E url \in Urls, api_key \in ApiKeys : NewProvider(url, api_key)
    \/ \E provider_id \in TargetIds, url \in Urls :
          EditProviderUrl(provider_id, url)
    \/ \E provider_id \in TargetIds, api_key \in ApiKeys :
          EditProviderApiKey(provider_id, api_key)
    \/ \E provider_id \in TargetIds : DeleteProvider(provider_id)
    \/ \E provider_id \in TargetIds, config_change \in DetectedChanges :
          CallCheckAndUpdateConfigCache(provider_id, config_change)
    \/ \E provider_id \in TargetIds :
          CallRefreshModelsForProvider(provider_id, DefaultName, <<"a">>)
    \/ \E provider_id \in TargetIds : CallDeleteModelsForProvider(provider_id)

SpecProviders == Init /\ [][NextProviders]_vars

\* Providers are deleted while sweeps and single-provider fetches run.
NextDelete ==
    \/ \E provider_id \in Providers : DeleteProvider(provider_id)
    \/ \E kind \in SweepKinds : RequestSweep(kind)
    \/ \E t \in SweepIds : SweepStart(t)
    \/ \E t \in SweepIds, result \in ListResults : SweepListed(t, result)
    \/ \E provider_id \in DOMAIN provider_url :
          RefetchProviderModels(provider_id,
                                [kind |-> "Create", value |-> None])
    \/ \E t \in FetchIds : FetchStart(t)
    \/ \E t \in FetchIds, result \in ListResults : FetchListed(t, result)

SpecDelete == Init /\ [][NextDelete]_vars

\* ------------------------------------------------------------------ claims

\* C1: after every sequence of insert, update_order_for_key and remove calls
\* on an initially empty ordered cache, lookup_map and order_map have the
\* same number of entries, every key of lookup_map has its (order key, value)
\* pair in order_map, and every order_map entry belongs to exactly one
\* lookup_map key.
C1_IndicesAgree ==
    /\ Cardinality(DOMAIN cache.lookup_map) = Cardinality(DOMAIN cache.order_map)
    /\ \A k \in DOMAIN cache.lookup_map :
          LET e == cache.lookup_map[k]
          IN  /\ e.order_key \in DOMAIN cache.order_map
              /\ cache.order_map[e.order_key] = e.value
    /\ \A o \in DOMAIN cache.order_map :
          Cardinality({k \in DOMAIN cache.lookup_map :
                          cache.lookup_map[k] =
                             [order_key |-> o, value |-> cache.order_map[o]]}) = 1

\* The timestamp most recently set as the order key of the key owning v.
TsOf(v) == cache.lookup_map[v.of].order_key.rev

\* C10: values() yields the value of every cached key, in non-increasing
\* order of each key's most recently set order key (front = most recent).
C10_ValuesMostRecentFirst ==
    LET vs == Values(cache)
    IN  /\ \A k \in DOMAIN cache.lookup_map :
              \E i \in 1..Len(vs) : vs[i] = cache.lookup_map[k].value
        /\ \A i \in 1..Len(vs) : vs[i].of \in DOMAIN cache.lookup_map
        /\ \A i, j \in 1..Len(vs) : i < j => TsOf(vs[i]) >= TsOf(vs[j])

\* The cached content of the message of the latest push_message_content call.
LastCached ==
    CachedContent(chat_mem[last_call.chat_id].messages, last_call.message_id)

LastPushOk ==
    /\ last_call.op = "push_message_content"
    /\ last_call.ret = Ok(Unit)
    /\ LastCached # None

\* C5: after a push_message_content call that returns Ok on a message present
\* in the in-memory map, the in-memory content of the message is the content
\* the store returned for the UPDATE (store wins).
C5_StoreWins == LastPushOk => LastCached = last_call.returned

\* C5 witness: the call found the cache and the store apart (another writer
\* had changed the row) and returned Ok.
C5_DesyncResolved == LastPushOk /\ last_call.cached # last_call.returned

\* C6: the stored content of every message is its initial content followed
\* by the deltas in the order their UPDATEs committed, and when a call of
\* this session has completed the in-memory content is the stored content.
C6_CommitOrder ==
    /\ \A m \in DOMAIN db_messages :
          db_messages[m].content = commits[m].initial \o Concat(commits[m].deltas)
    /\ LastPushOk => LastCached = Some(db_messages[last_call.message_id].content)

\* C6 witness: a call of this session committed after another writer's delta
\* and before a later one of its own.
C6_Interleaved ==
    /\ LastPushOk
    /\ \E m \in DOMAIN commits :
          \E i, j \in 1..Len(commits[m].deltas) :
             /\ i < j
             /\ commits[m].deltas[i] \in ExternalDeltas
             /\ commits[m].deltas[j] \in SessionDeltas
             /\ m = last_call.message_id
             /\ Len(commits[m].initial) > 0

\* The assistant message of a started generation, in the store and in memory.
GenStored(g) == db_messages[gens[g].msg_id].content

GenCached(g) == CachedContent(chat_mem[gens[g].chat_id].messages, gens[g].msg_id)

Started(g) == gens[g].pc # "unused"

\* C7: starting a new generation while one is active cancels the prior one:
\* once a newer generation has been started, the prior assistant message's
\* content receives no further appends.
C7_PriorStopsGrowing ==
    [][\A g, h \in GenIds :
          (g < h /\ Started(g) /\ Started(h)) => GenStored(g)' = GenStored(g)]_vars

\* C8: every started generation eventually ends (unless the process has
\* panicked): a generation never restarts, so this is to say that time and
\* again every started generation has ended. The step that ends it leaves
\* the streaming flag false and the stored handle None, and applying the cleanup twice is applying it once.
C8_CleanupRuns ==
    /\ []<>(panicked \/ \A g \in GenIds : Started(g) => gens[g].pc = "done")
    /\ [][\A g \in GenIds :
             (gens[g].pc # "done" /\ gens'[g].pc = "done")
                => (is_streaming' = FALSE /\ abort_handle' = None)]_vars
    /\ [](/\ Cleanup(App).is_streaming = FALSE
          /\ Cleanup(App).abort_handle = None
          /\ Cleanup(Cleanup(App)) = Cleanup(App))

\* C8 witness: one generation has ended by cancellation and another with the
\* provider's error text as its content, and the cleanup has run.
C8_EndedBothWays ==
    /\ \E g, h \in GenIds :
          /\ gens[g].pc = "done" /\ gens[g].aborted
          /\ gens[h].pc = "done" /\ ~gens[h].aborted /\ GenStored(h) = ErrorText
    /\ last_call.op = "poll"
    /\ is_streaming = FALSE
    /\ abort_handle = None

\* C9: once the abort handle of a generation has been signalled, the
\* generation makes no further push_message_content call (no UPDATE of its
\* message commits, no optimistic append, no failed unwrap), and its
\* assistant message stays as it was, in memory and in the store.
C9_AbortStopsAppends ==
    [][\A g \in GenIds :
          gens[g].aborted =>
             /\ GenStored(g)' = GenStored(g)
             /\ GenCached(g)' = GenCached(g)
             /\ commits'[gens[g].msg_id] = commits[gens[g].msg_id]
             /\ (last_call'.op = "poll" /\ last_call'.gen = g) => ~panicked']_vars

\* C9 witness: a generation was cancelled after a delta had landed, its task
\* has since ended, and the delta is still there.
C9_CancelledKeepsContent ==
    \E g \in GenIds :
       /\ gens[g].aborted
       /\ gens[g].pc = "done"
       /\ GenStored(g) \in Chunks
       /\ GenCached(g) = Some(GenStored(g))

\* A sweep between acquiring the gate and its end.
SweepActive(t) == sweeps[t].pc # "idle"

\* The list_models calls in flight for a provider.
SweepsListing(provider_id) ==
    {t \in SweepIds : sweeps[t].pc = "listing" /\ Head(sweeps[t].todo) = provider_id}

FetchesListing(provider_id) ==
    {t \in FetchIds : fetches[t].pc = "listing"
                         /\ fetches[t].provider_id = provider_id}

\* C2: at most one bulk sweep is between acquiring and releasing the gate,
\* an active sweep holds the gate, and a sweep request that finds the gate
\* set is dropped: it starts no task and queues nothing.
C2_OneSweepAtATime ==
    /\ [](Cardinality({t \in SweepIds : SweepActive(t)}) <= 1)
    /\ [](\A t \in SweepIds : SweepActive(t) => fetch_in_progress)
    /\ [][(last_call'.op \in SweepKinds /\ last_call'.ret = "dropped")
             => (fetch_in_progress /\ fetch_in_progress' /\ sweeps' = sweeps)]_vars
    /\ [][(last_call'.op \in SweepKinds /\ fetch_in_progress)
             => last_call'.ret = "dropped"]_vars

\* C2 witness: a sweep request was dropped while a sweep was suspended in a
\* provider call.
C2_RequestDropped ==
    /\ last_call.op \in SweepKinds
    /\ last_call.ret = "dropped"
    /\ \E t \in SweepIds : sweeps[t].pc = "listing"

\* C3: every sweep that acquired the gate clears it on every exit path,
\* the drop of its task included: the gate is set only while a sweep is
\* under way.
C3_GateHeldOnlyBySweep ==
    fetch_in_progress => \E t \in SweepIds : SweepActive(t)

\* C4: for every provider at most one list_models call is in flight, over
\* the bulk sweeps and the single-provider refetches.
C4_OneFetchPerProvider ==
    \A provider_id \in Providers :
       Cardinality(SweepsListing(provider_id))
          + Cardinality(FetchesListing(provider_id)) <= 1

\* The order positions of a key: the order keys under which order_map holds
\* a value of that key.
OrderPositions(m, key) == {o \in DOMAIN m.order_map : m.order_map[o].of = key}

\* What the two indices hold for a key.
EntriesOf(m, key) ==
    [lookup |-> IF key \in DOMAIN m.lookup_map THEN Some(m.lookup_map[key]) ELSE None,
     order  |-> {<<o, m.order_map[o]>> : o \in OrderPositions(m, key)}]

\* C11: update_order_for_key on a key absent from the cache returns Err(1)
\* (NotFound) and leaves lookup_map and order_map as they were.
C11_AbsentKeyNotFound ==
    [][(/\ last_call'.op = "update_order_for_key"
        /\ last_call'.key \notin DOMAIN cache.lookup_map)
          => (last_call'.ret = Err(1) /\ cache' = cache)]_vars

\* C11 witness: the call missed on a cache that holds other keys.
C11_MissedOnFilledCache ==
    /\ last_call.op = "update_order_for_key"
    /\ last_call.ret = Err(1)
    /\ last_call.key \notin DOMAIN cache.lookup_map
    /\ last_call.order_key \in DOMAIN cache.order_map
    /\ Cardinality(DOMAIN cache.lookup_map) >= 2

\* C12: insert(key, v2, o2) on a key already present leaves the key with
\* exactly one order position, at o2, get(key) returns v2, and the entries of
\* every other key in both indices are unchanged.
C12_InsertReplacesPosition ==
    [][(/\ last_call'.op = "insert"
        /\ last_call'.key \in DOMAIN cache.lookup_map)
          => (/\ OrderPositions(cache', last_call'.key) = {last_call'.order_key}
              /\ Get(cache', last_call'.key) = Some(last_call'.value)
              /\ \A k \in Keys \ {last_call'.key} :
                    EntriesOf(cache', k) = EntriesOf(cache, k))]_vars

\* C13: remove(key) on a present key takes the key out of lookup_map and its
\* value out of order_map and leaves the entries of every other key in both
\* indices unchanged; on an absent key it returns None and changes nothing.
C13_RemoveFrame ==
    [][last_call'.op = "remove"
          => IF last_call'.key \in DOMAIN cache.lookup_map
             THEN /\ Get(cache', last_call'.key) = None
                  /\ OrderPositions(cache', last_call'.key) = {}
                  /\ \A i \in 1..Len(Values(cache')) :
                        Values(cache')[i].of # last_call'.key
                  /\ \A k \in Keys \ {last_call'.key} :
                        EntriesOf(cache', k) = EntriesOf(cache, k)
             ELSE last_call'.ret = None /\ cache' = cache]_vars

\* C14: a chat's order key in the ordered cache is the edited_at of the
\* chat's own record, the Chat.edited_at field and the chats row, after
\* creation and after every message append and content append.
C14_OrderKeyIsEditedAt ==
    \A c \in DOMAIN chats.lookup_map :
       /\ chats.lookup_map[c].order_key = Reverse(chat_mem[c].edited_at)
       /\ chats.lookup_map[c].order_key = Reverse(db_chats[c].edited_at)

\* C15: push_message writes the row first and mirrors it into memory after:
\* when the INSERT fails it returns the store error and the cached messages
\* and the ordered cache are as before; when it succeeds the message is the
\* last of the chat's cached messages and the chat's order key is the
\* timestamp written to the row.
C15_StoreThenMemory ==
    [][last_call'.op = "push_message"
          => LET c  == last_call'.chat_id
                 id == NextMessageId(Session)
             IN  IF id \notin DOMAIN db_messages'
                 THEN /\ last_call'.ret = Err("SqliteError")
                      /\ chat_mem' = chat_mem
                      /\ chats' = chats
                 ELSE /\ db_messages'[id].chat_id = c
                      /\ chat_mem'[c].messages =
                            Append(chat_mem[c].messages,
                                   [message_id |-> id,
                                    content |-> db_messages'[id].content,
                                    role |-> db_messages'[id].role])
                      /\ c \in DOMAIN chats'.lookup_map
                      /\ chats'.lookup_map[c].order_key =
                            Reverse(db_messages'[id].created_at)]_vars

\* C16: when the UPDATE of push_message_content fails the error goes to the
\* caller and the session is as before the call: the cached content of the
\* message and the chat's order key are unchanged.
C16_FailedAppendChangesNothing ==
    [][(/\ last_call'.op = "push_message_content"
        /\ last_call'.ret \in {Err("SqliteError"), Err("QueryReturnedNoRows")})
          => (/\ chat_mem' = chat_mem
              /\ chats' = chats
              /\ db_messages' = db_messages)]_vars

\* a is a prefix of b.
IsPrefix(a, b) == Len(a) <= Len(b) /\ SubSeq(b, 1, Len(a)) = a

\* C17: with no other writer, the stored and the cached content of every
\* message only grow by appending: in every step the previous content is a
\* prefix of the new content, and no message is shortened or dropped.
C17_AppendOnly ==
    [][/\ \A m \in DOMAIN db_messages :
             /\ m \in DOMAIN db_messages'
             /\ IsPrefix(db_messages[m].content, db_messages'[m].content)
       /\ \A c \in DOMAIN chat_mem :
             /\ c \in DOMAIN chat_mem'
             /\ \A i \in 1..Len(chat_mem[c].messages) :
                   /\ i <= Len(chat_mem'[c].messages)
                   /\ chat_mem'[c].messages[i].message_id =
                         chat_mem[c].messages[i].message_id
                   /\ IsPrefix(chat_mem[c].messages[i].content,
                               chat_mem'[c].messages[i].content)]_vars

\* C17 witness: a generation has appended a second delta to its message,
\* in the store and in memory.
C17_GrewTwice ==
    \E g \in GenIds :
       /\ Started(g)
       /\ last_call.op = "poll"
       /\ last_call.gen = g
       /\ Len(GenStored(g)) = 2
       /\ GenCached(g) = Some(GenStored(g))
       /\ Len(commits[gens[g].msg_id].deltas) = 2

\* C18: of two sweep calls issued back to back, the first finding the gate
\* clear, exactly one starts a sweep: the second returns at the gate, spawns
\* no task, makes no provider call and leaves the catalog cache and the gate
\* as they were.
C18_SecondSweepReturns ==
    [][(/\ last_call.op \in SweepKinds
        /\ last_call.ret = "spawned"
        /\ last_call'.op \in SweepKinds)
          => (/\ last_call'.ret = "dropped"
              /\ sweeps' = sweeps
              /\ fetches' = fetches
              /\ per_provider' = per_provider
              /\ fetch_in_progress' = fetch_in_progress
              /\ Cardinality({t \in SweepIds : SweepActive(t)'}) = 1)]_vars

\* C18 witness: the second call was dropped before the task of the first was
\* polled.
C18_BackToBack ==
    /\ last_call.op \in SweepKinds
    /\ last_call.ret = "dropped"
    /\ \E t \in SweepIds : sweeps[t].pc = "spawned"
    /\ per_provider = EmptyMap

\* C19: a single-provider refetch bypasses the gate: a spawned fetch task
\* can start its list_models call whether or not a sweep holds the gate, a
\* refetch for a new provider spawns its task whatever the gate holds, and
\* no step of a refetch reads or writes the gate or touches a sweep.
C19_RefetchBypassesGate ==
    /\ [](\A t \in FetchIds : fetches[t].pc = "spawned" => ENABLED FetchStart(t))
    /\ [](\A provider_id \in Providers :
             (\E t \in FetchIds : fetches[t].pc = "idle")
                => ENABLED (/\ RefetchProviderModels(provider_id,
                                   [kind |-> "Create", value |-> None])
                            /\ last_call'.ret = "spawned"))
    /\ [][last_call'.op \in {"refetch_provider_models", "fetch_poll"}
             => (fetch_in_progress' = fetch_in_progress /\ sweeps' = sweeps)]_vars

\* C19 witness: a fetch task is in its list_models call, started by the
\* latest step, while a sweep holding the gate is in a provider call.
C19_FetchDuringSweep ==
    /\ fetch_in_progress
    /\ \E t \in SweepIds : sweeps[t].pc = "listing"
    /\ last_call.op = "fetch_poll"
    /\ \A t \in FetchIds : fetches[t].pc = "listing"

\* s is what is left of todo after some of its first elements.
IsSuffix(s, todo) ==
    /\ Len(s) <= Len(todo)
    /\ SubSeq(todo, Len(todo) - Len(s) + 1, Len(todo)) = s

\* C20: when list_models fails for a provider in a sweep, the cache entry of
\* the provider is left as it was and the sweep goes on with the providers
\* that remain (passing over only those a menu sweep finds fresh); a
\* provider call that succeeds is stored; and the step in which a sweep ends
\* clears the gate.
C20_FailureSkipsProvider ==
    /\ [][(last_call'.op = "sweep_poll" /\ last_call'.listed = "Err")
             => \E t \in SweepIds :
                   /\ sweeps[t].pc = "listing"
                   /\ per_provider' = per_provider
                   /\ IsSuffix(sweeps'[t].todo, Tail(sweeps[t].todo))
                   /\ \A i \in 1..(Len(sweeps[t].todo) - 1 - Len(sweeps'[t].todo)) :
                         /\ sweeps[t].kind = "fetch_all_models_with_source"
                         /\ ~IsProviderStale(per_provider,
                                             Tail(sweeps[t].todo)[i], instant)
                   /\ IF sweeps'[t].todo = <<>>
                      THEN sweeps'[t] = IdleSweep /\ ~fetch_in_progress'
                      ELSE sweeps'[t].pc = "listing" /\ fetch_in_progress']_vars
    /\ [][(last_call'.op = "sweep_poll" /\ last_call'.listed = "Ok")
             => \E t \in SweepIds :
                   /\ sweeps[t].pc = "listing"
                   /\ Head(sweeps[t].todo) \in DOMAIN per_provider'
                   /\ per_provider'[Head(sweeps[t].todo)].fetched_at = instant]_vars
    /\ [][\A t \in SweepIds :
             (SweepActive(t) /\ ~SweepActive(t)' /\ last_call'.op = "sweep_poll")
                => ~fetch_in_progress']_vars

\* C20 witness: a sweep has ended with the gate cleared, its call for the
\* first provider having failed and that for the second stored.
C20_SecondStoredAfterFailure ==
    /\ last_call.op = "sweep_poll"
    /\ last_call.listed = "Ok"
    /\ DOMAIN per_provider = {ProvidersInfo[2]}
    /\ ~fetch_in_progress
    /\ \A t \in SweepIds : ~SweepActive(t)
    /\ \A t \in FetchIds : fetches[t].pc = "idle"

\* The elapsed-time reading of staleness: no entry, or the cooldown has passed
\* since the latest refresh call.
StaleByHistory(provider_id) ==
    \/ provider_id \notin DOMAIN per_provider
    \/ instant - refreshes[provider_id].at >= MODEL_FETCH_COOLDOWN_SECS

C22_FreshOrNone ==
    last_call.op = "get_provider_models" =>
        LET p == last_call.provider_id
            r == last_call.ret
        IN  /\ r # None <=> ~IsProviderStale(per_provider, p, instant)
            /\ r # None => r = Some(<<refreshes[p].provider_name,
                                      refreshes[p].models>>)
            /\ p \notin DOMAIN refreshes => r = None
            /\ /\ p \in DOMAIN refreshes
               /\ instant - refreshes[p].at >= MODEL_FETCH_COOLDOWN_SECS
               => r = None

C22_ServedThenExpired ==
    /\ last_call.op = "get_provider_models"
    /\ last_call.ret = None
    /\ last_call.provider_id \in DOMAIN per_provider
    /\ refreshes[last_call.provider_id] = RefreshCall("OpenAI", <<"a">>, 0)
    /\ instant = 120

\* The flattened list holds one entry for each position of each provider's
\* stored catalog, and no other entry.
AllModelsMatchesPerProvider ==
    /\ \A e \in DOMAIN all_models :
          /\ e.provider_id \in DOMAIN per_provider
          /\ e.provider_name = per_provider[e.provider_id].provider_name
          /\ \E i \in DOMAIN per_provider[e.provider_id].models :
                per_provider[e.provider_id].models[i] = e.model_id
          /\ all_models[e] = 1
    /\ \A q \in DOMAIN per_provider :
          \A i \in DOMAIN per_provider[q].models :
             [provider_id |-> q, provider_name |-> per_provider[q].provider_name,
              model_id |-> per_provider[q].models[i]] \in DOMAIN all_models

Invalidated(call) ==
    \/ call.op = "delete_models_for_provider"
    \/ call.op = "delete_provider" /\ IsOk(call.ret)

\* The entries of all_models that belong to the provider.
EntriesOfProvider(all, provider_id) ==
    {e \in DOMAIN all : e.provider_id = provider_id}

\* C24: delete_models_for_provider, alone or within delete_provider, leaves
\* the provider stale, get_provider_models None for it, all_models without
\* an entry of it and its fingerprint gone, so that the change detection
\* that follows answers as it does on an empty cache; the entries and the
\* fingerprints of the other providers are as before.
C24_InvalidateDropsBoth ==
    [][/\ Invalidated(last_call') =>
            LET p == last_call'.provider_id
            IN  /\ IsProviderStale(per_provider', p, instant')
                /\ GetProviderModels(per_provider', p, instant') = None
                /\ EntriesOfProvider(all_models', p) = {}
                /\ p \notin DOMAIN provider_config_cache'
                /\ \A q \in ProviderIds \ {p} :
                      /\ q \in DOMAIN per_provider' <=> q \in DOMAIN per_provider
                      /\ q \in DOMAIN per_provider =>
                            per_provider'[q] = per_provider[q]
                      /\ EntriesOfProvider(all_models', q)
                            = EntriesOfProvider(all_models, q)
                      /\ q \in DOMAIN provider_config_cache'
                            <=> q \in DOMAIN provider_config_cache
                      /\ q \in DOMAIN provider_config_cache =>
                            provider_config_cache'[q] = provider_config_cache[q]
       /\ /\ Invalidated(last_call)
          /\ last_call'.op = "check_and_update_config_cache"
          /\ last_call'.provider_id = last_call.provider_id
          => last_call'.ret =
                CheckAndUpdateConfigCache(
                   EmptyMap, last_call'.provider_id, last_call'.config_change,
                   CurrentUrl(provider_url, last_call'.provider_id),
                   KeyOrEmpty(GetProviderApiKey(provider_url, provider_api_key,
                                                last_call'.provider_id))).ret
      ]_vars

C24_DeletedBesideCached ==
    /\ last_call.op = "delete_provider"
    /\ IsOk(last_call.ret)
    /\ last_call.provider_id = 2
    /\ 2 \in DOMAIN refreshes
    /\ 3 \in DOMAIN per_provider
    /\ 3 \in DOMAIN provider_config_cache

\* Whether the value a change supplies differs from the URL and the key
\* given: the URL verbatim, the key by its digest, no key as the empty one.
DiffersFrom(config_change, url, api_key) ==
    IF config_change.kind = "Url"
    THEN config_change.value[2] # url
    ELSE HashApiKey(KeyOrEmpty(config_change.value)) # HashApiKey(api_key)

\* C25 as stated: the call of check_and_update_config_cache that creates the
\* provider's fingerprint returns false, whatever value it is given.
C25_FirstCallReportsNoChange ==
    [][/\ last_call'.op = "check_and_update_config_cache"
       /\ last_call'.created
       => ~last_call'.ret]_vars

\* C25, amended: the call of check_and_update_config_cache that creates the
\* provider's fingerprint creates it from the provider's current URL and API
\* key and returns true exactly when the value it is given differs from that
\* current value; it leaves the fingerprint holding the value given.
C25_FirstCallComparesWithCurrent ==
    [][/\ last_call'.op = "check_and_update_config_cache"
       /\ last_call'.created
       => LET p == last_call'.provider_id
              c == last_call'.config_change
              url == CurrentUrl(provider_url, p)
              key == KeyOrEmpty(GetProviderApiKey(provider_url,
                                                  provider_api_key, p))
          IN  /\ p \notin DOMAIN provider_config_cache
              /\ last_call'.ret <=> DiffersFrom(c, url, key)
              /\ p \in DOMAIN provider_config_cache'
              /\ provider_config_cache'[p] =
                    IF c.kind = "Url"
                    THEN [url |-> c.value[2], api_key_hash |-> HashApiKey(key)]
                    ELSE [url |-> url,
                          api_key_hash |-> HashApiKey(KeyOrEmpty(c.value))]
      ]_vars

C25_FirstCallReportedChange ==
    /\ last_call.op = "check_and_update_config_cache"
    /\ last_call.created
    /\ last_call.ret
    /\ last_call.config_change = [kind |-> "Url", value |-> Some("u2")]
    /\ CurrentUrl(provider_url, last_call.provider_id) = "u1"

\* The fingerprint with the value of the change stored in it.
WithStored(state, config_change) ==
    IF config_change.kind = "Url"
    THEN [state EXCEPT !.url = config_change.value[2]]
    ELSE [state EXCEPT !.api_key_hash = HashApiKey(KeyOrEmpty(config_change.value))]

\* C26: when the provider's fingerprint exists, check_and_update_config_cache
\* returns true exactly when the URL given differs from the stored URL or the
\* digest of the key given differs from the stored digest, and then the
\* fingerprint holds the value given; a call that returns false leaves the
\* fingerprint as it was; the same change repeated at once returns false;
\* the fingerprints of the other providers are not touched.
C26_ChangeExactlyWhenDifferent ==
    [][last_call'.op = "check_and_update_config_cache" =>
          LET p == last_call'.provider_id
              c == last_call'.config_change
          IN  /\ ~last_call'.created =>
                    /\ p \in DOMAIN provider_config_cache
                    /\ last_call'.ret <=>
                          WithStored(provider_config_cache[p], c)
                             # provider_config_cache[p]
                    /\ provider_config_cache' =
                          [provider_config_cache EXCEPT ![p] = WithStored(@, c)]
                    /\ ~last_call'.ret =>
                          provider_config_cache' = provider_config_cache
              /\ /\ last_call.op = "check_and_update_config_cache"
                 /\ last_call.provider_id = p
                 /\ last_call.config_change = c
                 => ~last_call'.ret
              /\ \A q \in DOMAIN provider_config_cache \ {p} :
                    /\ q \in DOMAIN provider_config_cache'
                    /\ provider_config_cache'[q] = provider_config_cache[q]
      ]_vars

C26_ChangedThenRepeated ==
    /\ last_call.op = "check_and_update_config_cache"
    /\ ~last_call.created
    /\ ~last_call.ret
    /\ last_call.config_change = [kind |-> "ApiKey", value |-> Some("k")]
    /\ GetProviderApiKey(provider_url, provider_api_key,
                         last_call.provider_id) = None

\* The step starts generation g.
StartedNow(g) == gens[g].pc = "unused" /\ gens'[g].pc # "unused"

\* The step is a call of a handler that may reach send_message.
SendStep == last_call'.op \in {"on_enter", "on_click", "send_message"}

\* C27: a send without a current provider and model creates no chat, pushes
\* no message, leaves the streaming flag and the stored handle as they were
\* and starts no generation; a generation is started only by a send with
\* both selected, and the step that starts it pushes the user's message,
\* then a new assistant message with empty content, sets the streaming flag
\* and stores the generation's handle, the assistant message still empty.
C27_StreamingNeedsSelection ==
    [][/\ SendStep /\ ~selected =>
             /\ db_chats' = db_chats
             /\ db_messages' = db_messages
             /\ chat_mem' = chat_mem
             /\ is_streaming' = is_streaming
             /\ abort_handle' = abort_handle
             /\ \A g \in GenIds : gens'[g].pc = gens[g].pc
       /\ \A g \in GenIds : StartedNow(g) =>
             LET m == gens'[g].msg_id
                 c == gens'[g].chat_id
                 cached == chat_mem'[c].messages
             IN  /\ selected /\ SendStep
                 /\ DOMAIN db_messages' = DOMAIN db_messages \cup {m - 1, m}
                 /\ {m - 1, m} \cap DOMAIN db_messages = {}
                 /\ db_messages'[m - 1].role = "user"
                 /\ db_messages'[m - 1].content = Prompt
                 /\ db_messages'[m - 1].chat_id = c
                 /\ db_messages'[m].role = "assistant"
                 /\ db_messages'[m].content = <<>>
                 /\ db_messages'[m].chat_id = c
                 /\ Len(cached) >= 2
                 /\ cached[Len(cached) - 1] =
                       [message_id |-> m - 1, content |-> Prompt, role |-> "user"]
                 /\ cached[Len(cached)] =
                       [message_id |-> m, content |-> <<>>, role |-> "assistant"]
                 /\ is_streaming'
                 /\ abort_handle' = Some(g)
                 /\ ~gens'[g].aborted
       /\ /\ SendStep
          /\ \A g \in GenIds : ~StartedNow(g)
          => /\ is_streaming' = is_streaming
             /\ abort_handle' = abort_handle
      ]_vars

C27_GenerationEntered ==
    /\ last_call.op = "on_click"
    /\ gens[1].pc = "spawned"
    /\ gens[2].pc = "unused"
    /\ is_streaming
    /\ abort_handle = Some(1)
    /\ db_messages[gens[1].msg_id].content = <<>>

\* C29: a poll of the title task changes no message, in the store or in
\* memory, and neither the streaming flag, the stored abort handle, the
\* generations nor the current chat; of the chats it changes only the title
\* of its own chat; a chunk of the title stream is added to the title also
\* when the handle of the main stream has been signalled; an Enter or a click
\* leaves the title tasks there are as they were, and a title task that has
\* not ended can always be polled.
C29_TitleTaskIndependent ==
    /\ [][last_call'.op = "title_poll" =>
             LET c == last_call'.chat_id
             IN  /\ db_messages' = db_messages
                 /\ commits' = commits
                 /\ chats' = chats
                 /\ DOMAIN chat_mem' = DOMAIN chat_mem
                 /\ DOMAIN db_chats' = DOMAIN db_chats
                 /\ \A k \in DOMAIN chat_mem :
                       /\ chat_mem'[k].messages = chat_mem[k].messages
                       /\ chat_mem'[k].edited_at = chat_mem[k].edited_at
                       /\ k # c => chat_mem'[k].title = chat_mem[k].title
                 /\ \A k \in DOMAIN db_chats :
                       /\ db_chats'[k].edited_at = db_chats[k].edited_at
                       /\ k # c => db_chats'[k].title = db_chats[k].title
                 /\ is_streaming' = is_streaming
                 /\ abort_handle' = abort_handle
                 /\ gens' = gens
                 /\ current_chat_id' = current_chat_id
                 /\ last_call'.at = "streaming" /\ IsChunk(last_call'.item) =>
                       /\ title_tasks'[c].pc = "streaming"
                       /\ title_tasks'[c].title =
                             title_tasks[c].title \o last_call'.item[2][2]
         ]_vars
    /\ [][last_call'.op \in {"on_enter", "on_click"} =>
             \A c \in DOMAIN title_tasks :
                /\ c \in DOMAIN title_tasks'
                /\ title_tasks'[c] = title_tasks[c]]_vars
    /\ [](\A c \in DOMAIN title_tasks :
             ~panicked /\ title_tasks[c].pc # "done" => ENABLED TitleStep(c))

C29_TitledAfterCancel ==
    /\ last_call.op = "title_poll"
    /\ last_call.at = "streaming"
    /\ IsChunk(last_call.item)
    /\ abort_handle # None
    /\ gens[abort_handle[2]].aborted
    /\ chat_mem[last_call.chat_id].title = <<"t">>

\* The poll of a generation's task in which its provider was seen to fail:
\* the chat call returned an error, or the response stream yielded one.
ProviderFailed(call) ==
    call.op = "poll" /\ call.event \in {"chat_err", "stream_err"}

\* C28: in every poll in which the provider of a generation fails, by the
\* chat call or by an error of the delta stream, the error text is appended
\* to the assistant message, in the store and in memory, after the content
\* that had landed.
C28_ErrorTextAppended ==
    [][ProviderFailed(last_call') /\ ~panicked' =>
          LET g == last_call'.gen
              m == gens[g].msg_id
              c == gens[g].chat_id
          IN  /\ db_messages'[m].content = db_messages[m].content \o ErrorText
              /\ CachedContent(chat_mem'[c].messages, m)
                    = Some(db_messages[m].content \o ErrorText)
      ]_vars

\* The digests of the key texts and of the empty key.
Digests == {HashApiKey(k) : k \in KeyTexts \cup {""}}

\* C30: after every sequence of new_provider, edit_provider_url,
\* edit_provider_api_key, delete_provider and change-detection calls no
\* column of a providers row holds an API key, and a fingerprint of the
\* catalog cache holds a URL that is no key and the digest of a key, never
\* the key; the key itself is held by the secret store alone.
C30_KeyOnlyInSecretStore ==
    /\ \A p \in DOMAIN db_providers :
          \A column \in DOMAIN db_providers[p] :
             db_providers[p][column] \notin KeyTexts
    /\ \A p \in DOMAIN provider_config_cache :
          /\ DOMAIN provider_config_cache[p] = {"url", "api_key_hash"}
          /\ provider_config_cache[p].url \notin KeyTexts
          /\ provider_config_cache[p].api_key_hash \in Digests
    /\ \A p \in DOMAIN provider_api_key :
          provider_api_key[p] \in ApiKeys

C30_NewProviderWithKey ==
    /\ {2, 3} \subseteq DOMAIN db_providers
    /\ {2, 3} \subseteq DOMAIN provider_api_key
    /\ provider_api_key[3] = Some("k")
    /\ 3 \in DOMAIN provider_config_cache
    /\ provider_config_cache[3].api_key_hash = HashApiKey("k")
    /\ provider_api_key[2] = Some("k")
    /\ last_call.op = "edit_provider_api_key"

\* ------------------------------------------------------- relevance search

\* str::to_lowercase on the letters the titles and queries are written in.
Lowercase == [H |-> "h", E |-> "e", L |-> "l", O |-> "o"]

ToLowercase(s) ==
    [i \in 1..Len(s) |-> IF s[i] \in DOMAIN Lowercase THEN Lowercase[s[i]]
                         ELSE s[i]]

\* str::contains with a string pattern.
Contains(s, pattern) ==
    \E i \in 0..(Len(s) - Len(pattern)) :
       SubSeq(s, i + 1, i + Len(pattern)) = pattern

\* str::starts_with.
StartsWith(s, pattern) ==
    Len(pattern) <= Len(s) /\ SubSeq(s, 1, Len(pattern)) = pattern

\* Body applied to value, the value computed once: a value that is used
\* several times (a let binding of the source) is bound this way.
With(value, Body(_)) == CHOOSE r \in {Body(v) : v \in {value}} : TRUE

\* str::split_whitespace, collected: the maximal runs of non-whitespace.
RECURSIVE SplitWhitespace(_)
SplitWhitespace(s) ==
    IF s = <<>> THEN <<>>
    ELSE IF s[1] = " " THEN SplitWhitespace(Tail(s))
    ELSE With(LET stops == {i \in 1..Len(s) : s[i] = " "}
              IN  IF stops = {} THEN Len(s) + 1
                  ELSE CHOOSE i \in stops : \A j \in stops : i <= j,
              LAMBDA n : <<SubSeq(s, 1, n - 1)>>
                            \o SplitWhitespace(SubSeq(s, n, Len(s))))

\* An f64 score, kept exact as numerator and (positive) denominator.
Ratio(n, d) == <<n, d>>

RatioGeq(x, y) == x[1] * y[2] >= y[1] * x[2]

RatioGt(x, y) == x[1] * y[2] > y[1] * x[2]

RatioAdd(x, y) == Ratio(x[1] * y[2] + y[1] * x[2], x[2] * y[2])

\* f64::max.
RatioMax(x, y) == IF RatioGeq(x, y) THEN x ELSE y

\* fuzzy_threshold: 0.95 up to three bytes, 0.88 up to five, 0.82 beyond.
FuzzyThreshold(token_len) ==
    IF token_len <= 3 THEN Ratio(95, 100)
    ELSE IF token_len <= 5 THEN Ratio(88, 100)
    ELSE Ratio(82, 100)

\* The matching pass of strsim's jaro over a[i..]: each character of a takes
\* the first equal, still unflagged character of b inside the search range.
\* The result is the pair of flagged index sets.
RECURSIVE JaroFlags(_, _, _, _, _)
JaroFlags(a, b, i, a_flags, b_flags) ==
    IF i > Len(a) THEN <<a_flags, b_flags>>
    ELSE LET half == IF Len(a) >= Len(b) THEN Len(a) \div 2 ELSE Len(b) \div 2
             search_range == IF half = 0 THEN 0 ELSE half - 1
             min_bound == IF i - 1 > search_range THEN i - 1 - search_range
                          ELSE 0
             max_bound == IF Len(b) <= i + search_range THEN Len(b)
                          ELSE i + search_range
         IN  With({j \in 1..max_bound : /\ min_bound <= j - 1
                                        /\ a[i] = b[j]
                                        /\ j \notin b_flags},
                  LAMBDA found :
                     IF found = {}
                     THEN JaroFlags(a, b, i + 1, a_flags, b_flags)
                     ELSE With(CHOOSE x \in found : \A y \in found : x <= y,
                               LAMBDA j : JaroFlags(a, b, i + 1,
                                                    a_flags \cup {i},
                                                    b_flags \cup {j})))

\* The flagged characters of s, in order.
RECURSIVE Flagged(_, _, _)
Flagged(s, flags, i) ==
    IF i > Len(s) THEN <<>>
    ELSE (IF i \in flags THEN <<s[i]>> ELSE <<>>) \o Flagged(s, flags, i + 1)

\* strsim::jaro.
Jaro(a, b) ==
    IF Len(a) = 0 /\ Len(b) = 0 THEN Ratio(1, 1)
    ELSE IF Len(a) = 0 \/ Len(b) = 0 THEN Ratio(0, 1)
    ELSE With(JaroFlags(a, b, 1, {}, {}),
              LAMBDA flags :
                 LET matches == Cardinality(flags[1])
                     fa == Flagged(a, flags[1], 1)
                     fb == Flagged(b, flags[2], 1)
                     transpositions ==
                         Cardinality({k \in 1..matches : fa[k] # fb[k]}) \div 2
                 IN  IF matches = 0 THEN Ratio(0, 1)
                     ELSE Ratio(matches * matches * Len(b)
                                   + matches * matches * Len(a)
                                   + (matches - transpositions) * Len(a) * Len(b),
                                3 * Len(a) * Len(b) * matches))

\* The length of the common prefix of a and b.
CommonPrefixLen(a, b) ==
    Cardinality({n \in 1..Len(a) :
                    n <= Len(b) /\ SubSeq(a, 1, n) = SubSeq(b, 1, n)})

\* strsim::jaro_winkler: above 0.7 the similarity is raised by a tenth of the
\* remainder for each character of the common prefix.  For tokens of at most
\* five characters that are neither equal nor a prefix of each other the
\* common prefix has at most four characters, so a cap at four changes
\* nothing here.
JaroWinkler(a, b) ==
    With(Jaro(a, b),
         LAMBDA sim :
            IF RatioGt(sim, Ratio(7, 10))
            THEN LET prefix_length == CommonPrefixLen(a, b)
                 IN  Ratio(10 * sim[1] + prefix_length * (sim[2] - sim[1]),
                           10 * sim[2])
            ELSE sim)

\* The fold of best_token_score: the greatest similarity, from 0.0.
RECURSIVE BestSimilarity(_, _)
BestSimilarity(query_token, title_tokens) ==
    IF title_tokens = <<>> THEN Ratio(0, 1)
    ELSE With(BestSimilarity(query_token,
                             SubSeq(title_tokens, 1, Len(title_tokens) - 1)),
              LAMBDA rest :
                 With(JaroWinkler(query_token,
                                  title_tokens[Len(title_tokens)]),
                      LAMBDA sim : RatioMax(rest, sim)))

\* best_token_score.
BestTokenScore(query_token, title_tokens) ==
    IF \E k \in 1..Len(title_tokens) : query_token = title_tokens[k]
    THEN Some(Ratio(1, 1))
    ELSE IF \E k \in 1..Len(title_tokens) :
               StartsWith(title_tokens[k], query_token)
    THEN Some(Ratio(95, 100))
    ELSE LET threshold == FuzzyThreshold(Len(query_token))
         IN  With(BestSimilarity(query_token, title_tokens),
                  LAMBDA best :
                     IF RatioGeq(best, threshold) THEN Some(best) ELSE None)

\* The fold of calculate_match_score over query_tokens[1..n]: the pair of the
\* total score and the number of matched tokens.
RECURSIVE ScoreFold(_, _, _)
ScoreFold(query_tokens, title_tokens, n) ==
    IF n = 0 THEN <<Ratio(0, 1), 0>>
    ELSE With(ScoreFold(query_tokens, title_tokens, n - 1),
              LAMBDA acc :
                 With(BestTokenScore(query_tokens[n], title_tokens),
                      LAMBDA score :
                         IF score # None
                         THEN <<RatioAdd(acc[1], score[2]), acc[2] + 1>>
                         ELSE acc))

\* Mutant: a title matches only when every query token matched.
CalculateMatchScore_AllTokens(query_lower, query_tokens, title_lower) ==
    IF Contains(title_lower, query_lower) THEN Some(Ratio(2, 1))
    ELSE With(SplitWhitespace(title_lower),
              LAMBDA title_tokens :
                 IF title_tokens = <<>> THEN None
                 ELSE With(ScoreFold(query_tokens, title_tokens,
                                     Len(query_tokens)),
                           LAMBDA acc :
                              IF acc[2] = Len(query_tokens)
                              THEN Some(Ratio(acc[1][1],
                                              acc[1][2] * Len(query_tokens)))
                              ELSE None))

\* calculate_match_score.
CalculateMatchScore(query_lower, query_tokens, title_lower) ==
    IF Contains(title_lower, query_lower) THEN Some(Ratio(2, 1))
    ELSE With(SplitWhitespace(title_lower),
              LAMBDA title_tokens :
                 IF title_tokens = <<>> THEN None
                 ELSE With(ScoreFold(query_tokens, title_tokens,
                                     Len(query_tokens)),
                           LAMBDA acc :
                              IF acc[2] > 0
                              THEN Some(Ratio(acc[1][1],
                                              acc[1][2] * Len(query_tokens)))
                              ELSE None))

\* collect_and_score: the items with a score, in the order of the items (an
\* indexed parallel iterator collects in order); get_text is the identity.
RECURSIVE CollectAndScore(_, _, _)
CollectAndScore(items, query_lower, query_tokens) ==
    IF items = <<>> THEN <<>>
    ELSE With(CalculateMatchScore(query_lower, query_tokens,
                                  ToLowercase(items[1])),
              LAMBDA score :
                 (IF score # None THEN <<<<items[1], score[2]>>>> ELSE <<>>)
                    \o CollectAndScore(Tail(items), query_lower, query_tokens))

\* Vec::sort_by with the comparison b.1.partial_cmp(&a.1): a stable sort by
\* descending score.  x goes behind every element scoring at least as much.
RECURSIVE InsertByScore(_, _)
InsertByScore(sorted, x) ==
    IF sorted = <<>> THEN <<x>>
    ELSE IF RatioGeq(sorted[1][2], x[2])
    THEN <<sorted[1]>> \o InsertByScore(Tail(sorted), x)
    ELSE <<x>> \o sorted

RECURSIVE SortByScore(_)
SortByScore(scored) ==
    IF scored = <<>> THEN <<>>
    ELSE With(SortByScore(SubSeq(scored, 1, Len(scored) - 1)),
              LAMBDA sorted : InsertByScore(sorted, scored[Len(scored)]))

\* filter_by_relevance.
FilterByRelevance(items, query) ==
    IF query = <<>> THEN items
    ELSE With(ToLowercase(query),
              LAMBDA query_lower :
                 With(SplitWhitespace(query_lower),
                      LAMBDA query_tokens :
                         IF query_tokens = <<>> THEN items
                         ELSE With(CollectAndScore(items, query_lower,
                                                   query_tokens),
                                   LAMBDA collected :
                                      With(SortByScore(collected),
                                           LAMBDA scored :
                                              [k \in 1..Len(scored) |->
                                                  scored[k][1]]))))

\* The titles of the items searched and the queries typed.
SearchTitles ==
    { <<>>,
      <<" ">>,
      <<"h", "e", "l", "l", "o">>,
      <<"H", "E", "L", "L", "O">>,
      <<"h", "e", " ", "l", "o">>,
      <<"a", "p", "p", "l", "e">> }

SearchQueries ==
    { <<>>,
      <<" ">>,
      <<" ", " ">>,
      <<"h", "e", "l", "l", "o">>,
      <<"H", "e", "l", "o">>,
      <<"h", "e">>,
      <<" ", "h", "e">>,
      <<"l">>,
      <<"l", "o", " ", "x">>,
      <<"x", "y", "z">> }

\* The item lists searched: up to two items, and three items of which the
\* first has the empty title.
SearchItemLists ==
    {<<>>} \cup {<<t>> : t \in SearchTitles}
           \cup {<<t, u>> : t \in SearchTitles, u \in SearchTitles}
           \cup {<<<<>>, u, v>> : u \in SearchTitles, v \in SearchTitles}

CallFilterByRelevance(items, query) ==
    /\ last_call' = [op |-> "filter_by_relevance", items |-> items,
                     query |-> query, ret |-> FilterByRelevance(items, query)]
    /\ UNCHANGED <<cacheVars, chatVars, streamVars, fetchVars>>

NextSearch ==
    \E items \in SearchItemLists, query \in SearchQueries :
       CallFilterByRelevance(items, query)

SpecSearch == Init /\ [][NextSearch]_vars

\* The number of occurrences of x in the sequence s.
Occurrences(s, x) == Cardinality({k \in 1..Len(s) : s[k] = x})

\* A query token matches a title token: equal to it, a prefix of it, or
\* similar to it at the threshold of the query token's length.
TokenMatches(query_token, title_token) ==
    \/ query_token = title_token
    \/ StartsWith(title_token, query_token)
    \/ RatioGeq(JaroWinkler(query_token, title_token),
                FuzzyThreshold(Len(query_token)))

\* The text matches the query: it contains the query, or one of the query's
\* tokens matches one of its tokens (case ignored).
TextMatches(text, query) ==
    LET text_tokens == SplitWhitespace(ToLowercase(text))
        query_tokens == SplitWhitespace(ToLowercase(query))
    IN  \/ Contains(ToLowercase(text), ToLowercase(query))
        \/ \E q \in 1..Len(query_tokens), t \in 1..Len(text_tokens) :
              TokenMatches(query_tokens[q], text_tokens[t])

\* C31: filter_by_relevance returns the items unchanged when the query is
\* empty or all whitespace; otherwise it returns each item whose text matches
\* the query as often as it was given and no other item, so no items or no
\* matching item give the empty result.
C31_FilterReturnsMatches ==
    last_call.op = "filter_by_relevance" =>
        IF \A k \in 1..Len(last_call.query) : last_call.query[k] = " "
        THEN last_call.ret = last_call.items
        ELSE /\ \A t \in SearchTitles :
                   Occurrences(last_call.ret, t) =
                      IF TextMatches(t, last_call.query)
                      THEN Occurrences(last_call.items, t) ELSE 0
             /\ Len(last_call.ret) <= Len(last_call.items)

\* A query with one matching and one missing token over a matching, an
\* empty and a non-matching title.
C31_PartialQueryFiltered ==
    /\ last_call.op = "filter_by_relevance"
    /\ last_call.query = <<"l", "o", " ", "x">>
    /\ last_call.items = <<<<>>, <<"h", "e", " ", "l", "o">>,
                           <<"a", "p", "p", "l", "e">>>>
    /\ last_call.ret = <<<<"h", "e", " ", "l", "o">>>>

\* C32: in a menu sweep list_models is called for a provider exactly when
\* its cache entry is stale as the sweep reaches it: each provider the sweep
\* passes over is fresh and keeps its entry, fetched_at included, the
\* provider it lists next is stale or unseen, and a successful call stores
\* the provider's entry at the instant it resolved.
C32_ListsExactlyStale ==
    [][\A t \in SweepIds :
          (/\ sweeps[t].kind = "fetch_all_models_with_source"
           /\ sweeps[t].pc \in {"spawned", "listing"}
           /\ last_call'.op = "sweep_poll"
           /\ sweeps'[t] # sweeps[t])
          => LET before == IF sweeps[t].pc = "spawned"
                           THEN CollectProviders(provider_url)
                           ELSE Tail(sweeps[t].todo)
                 after == sweeps'[t].todo
                 passed == {before[k] : k \in 1..(Len(before) - Len(after))}
             IN  /\ IsSuffix(after, before)
                 /\ \A p \in passed :
                       /\ p \in DOMAIN per_provider
                       /\ ~IsProviderStale(per_provider, p, instant)
                       /\ per_provider'[p] = per_provider[p]
                 /\ after # <<>> =>
                       /\ sweeps'[t].pc = "listing"
                       /\ IsProviderStale(per_provider', Head(after), instant)
                 /\ (sweeps[t].pc = "listing" /\ last_call'.listed = "Ok") =>
                       /\ Head(sweeps[t].todo) \in DOMAIN per_provider'
                       /\ per_provider'[Head(sweeps[t].todo)].fetched_at
                             = instant
                       /\ per_provider'[Head(sweeps[t].todo)].models
                             = refreshes'[Head(sweeps[t].todo)].models
                       /\ refreshes'[Head(sweeps[t].todo)].at = instant
      ]_vars

\* A menu sweep has passed over the fresh first provider and is listing the
\* unseen second one.
C32_PassedOverFresh ==
    \E t \in SweepIds :
       /\ sweeps[t].kind = "fetch_all_models_with_source"
       /\ sweeps[t].pc = "listing"
       /\ sweeps[t].todo = <<2>>
       /\ last_call.op = "sweep_poll"
       /\ last_call.listed = "nothing"
       /\ 1 \in DOMAIN per_provider
       /\ 2 \notin DOMAIN per_provider
       /\ ~IsProviderStale(per_provider, 1, instant)

C34_ActiveHoldsFlagAndHandle ==
    panicked \/ \A g \in GenIds :
                   (gens[g].pc \in {"spawned", "chat_call", "streaming"}
                       /\ ~gens[g].aborted)
                   => (is_streaming /\ abort_handle = Some(g))

\* C35: at most one generation that has not been cancelled is running at any
\* time, and whenever send_message starts a generation every generation
\* started before it has finished or has had its handle signalled.
C35_OneGenerationApplies ==
    /\ [](Cardinality({g \in GenIds :
                          /\ gens[g].pc \in {"spawned", "chat_call", "streaming"}
                          /\ ~gens[g].aborted}) <= 1)
    /\ [][\A h \in GenIds :
             (gens[h].pc = "unused" /\ gens'[h].pc # "unused")
             => \A g \in GenIds \ {h} :
                   gens[g].pc # "unused" =>
                      (gens'[g].pc = "done" \/ gens'[g].aborted)]_vars

\* C36: whenever no sweep and no single-provider fetch is in flight, every
\* provider with an entry in per_provider or in all_models is a provider of
\* the providers map, whatever the interleaving of delete_provider with the
\* sweeps and the fetches.
C36_CacheOnlyOfProviders ==
    (/\ \A t \in SweepIds : sweeps[t].pc = "idle"
     /\ \A t \in FetchIds : fetches[t].pc = "idle")
    => /\ DOMAIN per_provider \subseteq DOMAIN provider_url
       /\ \A e \in DOMAIN all_models : e.provider_id \in DOMAIN provider_url

\* C37: the unwrap() of update_order_for_key in push_message and
\* push_message_content never fails: no call has panicked, and for every
\* chat that can be written update_order_for_key returns Ok, that is neither
\* Err(1) (the key is not in lookup_map) nor Err(2) (its order entry is not
\* in order_map), whatever the timestamps.
C37_UnwrapNeverFails ==
    /\ ~panicked
    /\ \A chat_id \in DOMAIN chat_mem :
          UpdateOrderForKey(chats, chat_id, Reverse(clock)).ret = Ok(Unit)

\* ChatsManager::load_chats_from_db: the ids of the chats rows, ORDER BY
\* edited_at ASC.
LoadChatsFromDb(s) == OrderByEditedAt(s.db_chats, DOMAIN s.db_chats)

\* The loop of ChatsManager::init: each loaded chat is inserted under
\* Reverse of the edited_at of its row.
RECURSIVE InsertLoaded(_, _, _)
InsertLoaded(new_chats, raw_chats, rows) ==
    IF raw_chats = <<>> THEN new_chats
    ELSE InsertLoaded(Insert(new_chats, Head(raw_chats), Head(raw_chats),
                             Reverse(rows[Head(raw_chats)].edited_at)),
                      Tail(raw_chats), rows)

\* ChatsManager::init on the store of s: the ordered cache it builds.
InitChats(s) == InsertLoaded(NewMap, LoadChatsFromDb(s), s.db_chats)

\* C38: after any sequence of create_chat, push_message and
\* push_message_content, the ordered cache rebuilt from the store by
\* ChatsManager::init yields every chat of the store exactly once and in the
\* order chats_iter yielded before the rebuild.
C38_RebuildKeepsOrder ==
    ~panicked =>
       LET rebuilt == Values(InitChats(Session))
       IN  /\ rebuilt = Values(chats)
           /\ \A chat_id \in DOMAIN db_chats :
                 Cardinality({i \in 1..Len(rebuilt) : rebuilt[i] = chat_id}) = 1

\* ---------------------------------------------------------------------------
\* C39. Once a provider's URL or API key has been changed and every fetch
\* started for that provider has completed successfully, the cached model list
\* of the provider is the answer to the fetch started after the latest change;
\* and a fetch started under an older configuration never replaces the answer
\* obtained under the latest one. (Every fetch of SpecServed succeeds and is
\* answered by its configuration, so the answer to the fetch started after the
\* latest change is ServedModels of the provider's present configuration.)
FetchesOf(provider_id) ==
    {t \in FetchIds : fetches[t].pc # "idle"
                         /\ fetches[t].provider_id = provider_id}

LatestAnswer(provider_id) ==
    ServedModels(provider_url[provider_id], provider_api_key[provider_id])

C39_LatestFetchWins ==
    /\ [](\A provider_id \in Providers :
             (/\ provider_id \in DOMAIN provider_config_cache
              /\ provider_id \in DOMAIN per_provider
              /\ FetchesOf(provider_id) = {})
                => per_provider[provider_id].models = LatestAnswer(provider_id))
    /\ [][\A t \in FetchIds :
             LET provider_id == fetches[t].provider_id
             IN  (/\ fetches[t].pc = "listing"
                  /\ fetches'[t].pc = "idle"
                  /\ provider_id \in DOMAIN per_provider
                  /\ per_provider[provider_id].models = LatestAnswer(provider_id)
                  /\ ServedModels(fetches[t].url, fetches[t].api_key)
                        # LatestAnswer(provider_id))
                    => per_provider'[provider_id].models
                          = per_provider[provider_id].models]_vars

====
